---- MODULE Spec2Model ----
(***************************************************************************)
(* Model of the PartADay database proxy: the credential verifier           *)
(* (middleware/auth.ts), the per-key rate limiter, the application wiring  *)
(* (app.ts), the list-query builders of the route handlers and the         *)
(* transactional upsert-insert workflow of the submission handlers.        *)
(*                                                                         *)
(* Text is modelled as a sequence of one-character strings, so that hex    *)
(* encoding/decoding, parseInt and string interpolation are computed the   *)
(* way the JavaScript runtime computes them.                               *)
(***************************************************************************)
EXTENDS Integers, Sequences, FiniteSets, TLC

(***************************************************************************)
(* Bounds of the model                                                     *)
(***************************************************************************)
\* bytes of a digest in the model (SHA-256 has 32; the comparison logic is
\* the same for every length)
DigestLen == 2
\* number of clock steps the verifier model lets pass
MaxTicks == 2
\* reading of the server clock in the initial state
Now0 == 1000000

\* requests of any kind the application model handles in one run
MaxRequests == 3
\* the max argument of the limiter instance under study
LimMax == 2
\* calls to the limiter in one run
MaxCalls == 6

VARIABLES
  now,        \* Date.now(): the server clock, in milliseconds
  ticks,      \* clock steps taken so far
  req,        \* the request in flight, or NoReq
  res,        \* the outcome of the middleware for req, or NoRes
  ipHits,     \* express-rate-limit's counter for the one source address
  adminUsers, \* table admin_users: the stored (email, password) pairs
  served,     \* what the application did with the last request, or NoServed
  burst,      \* observer: correctly authenticated requests of the current minute
  handled,    \* requests handled so far
  store,      \* createApiKeyRateLimit's Map: API key -> { count, resetTime }
  limOut,     \* what the limiter did with the last call, or NoOut
  win,        \* observer: per key, the start of its window and the calls in it
  list,       \* the last list request served and the queries it issued
  list2,      \* a second list request with the same filters set, for comparison
  users,      \* table users, committed rows: email -> row or NoRow
  subs,       \* tables quote_requests, part_suggestions and contact_support_requests
  inFlight,   \* the submission handlers in flight, each with its connection
  started,    \* submissions received so far
  nodeEnv,    \* process.env.NODE_ENV, "" when it is not set
  dbReachable \* whether the datastore answers the pool's queries

vars == << now, ticks, req, res, ipHits, adminUsers, served, burst, handled,
           store, limOut, win, list, list2, users, subs,
           inFlight, started, nodeEnv, dbReachable >>

envVars == << nodeEnv, dbReachable >>

limVars == << store, limOut, win >>

listVars == << list, list2 >>

txnVars == << users, subs, inFlight, started >>

appVars == << ipHits, adminUsers, served, burst, handled >>

\* the variables the credential-verifier actions leave alone
nonAuth == << appVars, limVars, listVars, txnVars, envVars >>

\* the variables the application actions leave alone
nonApp == << limVars, listVars, txnVars, envVars >>

\* the variables the per-key limiter actions leave alone
nonLim == << listVars, txnVars, envVars >>

\* the variables the list endpoints leave alone
nonList == << appVars, limVars, txnVars, envVars >>

(***************************************************************************)
(* Text helpers                                                            *)
(***************************************************************************)
Chars ==
  << "0", "1", "2", "3", "4", "5", "6", "7", "8", "9",
     "a", "b", "c", "d", "e", "f", "A", "B", "C", "D", "E", "F",
     "g", "x", "X", "-", "+", " ", "{", "}", ":", ",", "q", "k", "s",
     "'", "$", "|", "z", "\"", "email", "password", "m", "p", "w", "@" >>

Code(c) == CHOOSE i \in 1..Len(Chars) : Chars[i] = c

Abs(n) == IF n < 0 THEN -n ELSE n

Min(a, b) == IF a < b THEN a ELSE b

\* Number.prototype.toString() of a non-negative integer
RECURSIVE DecDigits(_)
DecDigits(n) ==
  IF n < 10 THEN << Chars[n + 1] >>
  ELSE Append(DecDigits(n \div 10), Chars[(n % 10) + 1])

NumToString(n) == IF n < 0 THEN << "-" >> \o DecDigits(-n) ELSE DecDigits(n)

\* value of a hexadecimal digit, -1 for any other character
HexVal(c) ==
  IF c \in {"0","1","2","3","4","5","6","7","8","9"} THEN Code(c) - 1
  ELSE IF c \in {"a","b","c","d","e","f"} THEN Code(c) - 1
  ELSE IF c \in {"A","B","C","D","E","F"} THEN Code(c) - 7
  ELSE -1

IsDigit(c) == c \in {"0","1","2","3","4","5","6","7","8","9"}

\* Buffer.from(s, 'hex'): decodes pairs of hex digits, in either letter
\* case, and stops at the first pair that is not two hex digits; a trailing
\* single character is dropped.
RECURSIVE BufferFromHex(_)
BufferFromHex(s) ==
  IF Len(s) < 2 THEN << >>
  ELSE IF HexVal(s[1]) < 0 \/ HexVal(s[2]) < 0 THEN << >>
  ELSE << HexVal(s[1]) * 16 + HexVal(s[2]) >> \o BufferFromHex(SubSeq(s, 3, Len(s)))

\* hmac.digest('hex'): two lower-case hex digits per byte
RECURSIVE DigestHex(_)
DigestHex(bytes) ==
  IF bytes = << >> THEN << >>
  ELSE << Chars[(bytes[1] \div 16) + 1], Chars[(bytes[1] % 16) + 1] >>
       \o DigestHex(Tail(bytes))

\* A keyed digest standing for HMAC-SHA256: a deterministic function of the
\* key and of every character of the payload, DigestLen bytes long.
RECURSIVE Absorb(_, _)
Absorb(h, s) ==
  IF s = << >> THEN h
  ELSE Absorb((h * 31 + Code(s[1])) % 65521, Tail(s))

CreateHmac(key, payload) ==
  LET h == Absorb(Absorb(7, key), payload)
  IN  [i \in 1..DigestLen |-> (h * (2 * i + 1) + 89 * i) % 256]

(***************************************************************************)
(* Numbers: parseInt and the ECMAScript time range                         *)
(***************************************************************************)
\* A parsed number is NaN or sign * (hi * 10^8 + lo); hi saturates at 10^8,
\* which stands for every magnitude of at least 10^16.
Limb == 10000 * 10000

NaN == [nan |-> TRUE, neg |-> FALSE, hi |-> 0, lo |-> 0]

RECURSIVE Accumulate(_, _, _, _, _)
Accumulate(s, radix, hi, lo, seen) ==
  IF s = << >> \/ HexVal(s[1]) < 0 \/ HexVal(s[1]) >= radix
  THEN [seen |-> seen, hi |-> hi, lo |-> lo]
  ELSE LET l2 == lo * radix + HexVal(s[1])
           h2 == hi * radix + (l2 \div Limb)
       IN  Accumulate(Tail(s), radix, Min(h2, Limb), l2 % Limb, TRUE)

RECURSIVE TrimStart(_)
TrimStart(s) == IF s # << >> /\ s[1] = " " THEN TrimStart(Tail(s)) ELSE s

\* parseInt(string) with no radix argument: leading white space, an optional
\* sign, an optional 0x/0X prefix, then the longest prefix of digits; NaN
\* when there is no digit.  Whatever follows the digits is ignored.
ParseInt(str) ==
  LET t    == TrimStart(str)
      neg  == t # << >> /\ t[1] = "-"
      u    == IF t # << >> /\ t[1] \in {"-", "+"} THEN Tail(t) ELSE t
      hex  == Len(u) >= 2 /\ u[1] = "0" /\ u[2] \in {"x", "X"}
      body == IF hex THEN SubSeq(u, 3, Len(u)) ELSE u
      acc  == Accumulate(body, IF hex THEN 16 ELSE 10, 0, 0, FALSE)
  IN  IF ~acc.seen THEN NaN
      ELSE [nan |-> FALSE, neg |-> neg, hi |-> acc.hi, lo |-> acc.lo]

IsNaN(n) == n.nan

NumValue(n) == IF n.neg THEN -n.lo ELSE n.lo

\* Math.abs(now - requestTime) > windowMs, for a clock below 10^8
TimeDifferenceExceeds(t, n, windowMs) ==
  IF n.nan THEN FALSE
  ELSE IF n.hi > 0 THEN TRUE
  ELSE Abs(t - NumValue(n)) > windowMs

\* new Date(v).toISOString() throws a RangeError unless v is a time value:
\* a number with |v| <= 8.64 * 10^15
DateRangeHi == 864 * 100000

ToISOStringThrows(n) ==
  n.nan \/ n.hi > DateRangeHi \/ (n.hi = DateRangeHi /\ n.lo > 0)

(***************************************************************************)
(* Requests                                                                *)
(***************************************************************************)
\* process.env.PROXY_API_KEY and process.env.PROXY_SECRET_KEY
ProxyApiKey == << "k", "1" >>
ProxySecretKey == << "s", "9" >>

NoReq == [kind |-> "none"]
NoRes == [kind |-> "none"]

\* JSON.stringify of a parsed body: an object whose members, in insertion
\* order, have a key and an integer (num) or string (str) value
JSONValue(m) ==
  IF m.t = "num" THEN NumToString(m.v) ELSE << "\"" >> \o m.v \o << "\"" >>

RECURSIVE JSONMembers(_)
JSONMembers(b) ==
  IF b = << >> THEN << >>
  ELSE << "\"", b[1].k, "\"", ":" >> \o JSONValue(b[1])
       \o (IF Len(b) > 1 THEN << "," >> ELSE << >>) \o JSONMembers(Tail(b))

JSONStringify(b) == << "{" >> \o JSONMembers(b) \o << "}" >>

Bodies ==
  { << >>, << [k |-> "a", t |-> "num", v |-> 5], [k |-> "b", t |-> "str", v |-> << "z" >>] >> }

\* generateAuthHeaders(body, apiKey, secretKey), called when the clock reads t
generateAuthHeaders(body, apiKey, secretKey, t) ==
  LET timestamp == NumToString(t)
      payload   == JSONStringify(body) \o timestamp
  IN  [apiKey    |-> apiKey,
       signature |-> DigestHex(CreateHmac(secretKey, payload)),
       timestamp |-> timestamp]

(***************************************************************************)
(* middleware/auth.ts: authenticateRequest                                 *)
(***************************************************************************)
WindowMs == 300000

\* crypto.timingSafeEqual(a, b): throws a RangeError when the byte lengths
\* differ, otherwise tells whether the buffers are equal
TimingSafeEqualPrefix(a, b) ==
  LET n == Min(Len(a), Len(b))
  IN  IF SubSeq(a, 1, n) = SubSeq(b, 1, n) THEN "equal" ELSE "differ"

TimingSafeEqual(a, b) ==
  IF Len(a) # Len(b) THEN "throw"
  ELSE IF a = b THEN "equal" ELSE "differ"

Rejected(status, error, t) ==
  [kind |-> "res", next |-> FALSE, status |-> status, error |-> error, at |-> t]

Accepted(t) ==
  [kind |-> "res", next |-> TRUE, status |-> 0, error |-> "", at |-> t]

\* a verifier that keeps a record of what it accepted and refuses a second
\* presentation
authenticateRequestOnce(r, t) ==
  LET apiKey      == r.apiKey
      signature   == r.signature
      timestamp   == r.timestamp
      requestTime == ParseInt(timestamp)
      payload     == JSONStringify(r.body) \o timestamp
      expectedSignature == DigestHex(CreateHmac(ProxySecretKey, payload))
      cmp == TimingSafeEqual(BufferFromHex(signature), BufferFromHex(expectedSignature))
  IN  IF apiKey = << >> \/ signature = << >> \/ timestamp = << >>
      THEN Rejected(401, "Missing authentication headers", t)
      ELSE IF apiKey # ProxyApiKey
      THEN Rejected(401, "Invalid API key", t)
      ELSE IF IsNaN(requestTime) \/ TimeDifferenceExceeds(t, requestTime, WindowMs)
      THEN IF ToISOStringThrows(requestTime)
           THEN Rejected(500, "Authentication failed", t)
           ELSE Rejected(401, "Request timestamp too old or invalid", t)
      ELSE IF cmp = "throw"
      THEN Rejected(500, "Authentication failed", t)
      ELSE IF cmp = "differ"
      THEN Rejected(401, "Invalid signature", t)
      ELSE IF served.kind = "served" /\ served.credentialsOk
      THEN Rejected(401, "Request already presented", t)
      ELSE Accepted(t)

\* An absent header and an empty header are both falsy; both are << >>.
authenticateRequest(r, t) ==
  LET apiKey      == r.apiKey
      signature   == r.signature
      timestamp   == r.timestamp
      requestTime == ParseInt(timestamp)
      payload     == JSONStringify(r.body) \o timestamp
      expectedSignature == DigestHex(CreateHmac(ProxySecretKey, payload))
      cmp == TimingSafeEqual(BufferFromHex(signature), BufferFromHex(expectedSignature))
  IN  IF apiKey = << >> \/ signature = << >> \/ timestamp = << >>
      THEN Rejected(401, "Missing authentication headers", t)
      ELSE IF apiKey # ProxyApiKey
      THEN Rejected(401, "Invalid API key", t)
      ELSE IF IsNaN(requestTime) \/ TimeDifferenceExceeds(t, requestTime, WindowMs)
      THEN \* the log entry is built before the response is sent
           IF ToISOStringThrows(requestTime)
           THEN Rejected(500, "Authentication failed", t)
           ELSE Rejected(401, "Request timestamp too old or invalid", t)
      ELSE IF cmp = "throw"
      THEN Rejected(500, "Authentication failed", t)
      ELSE IF cmp = "differ"
      THEN Rejected(401, "Invalid signature", t)
      ELSE Accepted(t)

(***************************************************************************)
(* The credential verifier at work: clients sign, senders alter headers,   *)
(* the clock advances, the middleware decides.                             *)
(***************************************************************************)
HexChars ==
  { "0","1","2","3","4","5","6","7","8","9","a","b","c","d","e","f",
    "A","B","C","D","E","F" }

\* String.prototype.toUpperCase on one character
ToUpper(c) ==
  IF c \in {"a","b","c","d","e","f"} THEN Chars[Code(c) + 6] ELSE c

ToLower(c) ==
  IF c \in {"A","B","C","D","E","F"} THEN Chars[Code(c) - 6] ELSE c

\* characters a sender may put in place of the signature character c
SigChars(c) == { "0", "9", "f", "E", "g", ToUpper(c) }

\* x-timestamp values a client may send when the clock reads t
TimestampStrings(t) ==
  { NumToString(t + d) : d \in { -(WindowMs + 1), -WindowMs, 0, WindowMs, WindowMs + 1 } }
  \cup { NumToString(t) \o << "z" >>,
         << " " >> \o NumToString(t),
         << "z" >>,
         << "-", "5" >>,
         << "0", "x", "f" >>,
         << "8","6","4","0","0","0","0","0","0","0","0","0","0","0","0","0" >>,
         << "8","6","4","0","0","0","0","0","0","0","0","0","0","0","0","1" >>,
         << "1","0","0","0","0","0","0","0","0","0","0","0","0","0","0","0","0" >> }

\* a holder of the secret signs body over the timestamp string ts
\* (generateAuthHeaders with the client's own clock reading)
SignedRequest(body, ts) ==
  [kind      |-> "req",
   apiKey    |-> ProxyApiKey,
   signature |-> DigestHex(CreateHmac(ProxySecretKey, JSONStringify(body) \o ts)),
   timestamp |-> ts,
   body      |-> body,
   tampered  |-> FALSE]

ReplaceAt(s, i, c) == [s EXCEPT ![i] = c]

\* the application state right after the process has started
NoServed == [kind |-> "none"]

NoEntry == [kind |-> "none"]
NoOut == [kind |-> "none", seq |-> 0]

\* API keys that callers of the limiter present
LimKeys == { << "k", "1" >>, << "k", "2" >> }

\* no list request has been served yet
NoList == [kind |-> "none"]

ListAtStart ==
  /\ list = NoList
  /\ list2 = NoList

\* an empty database and idle handlers
NoRow == [kind |-> "none"]

Emails == { "ann@x", "bob@x" }

Handlers == 1..2

Idle == [pc |-> "idle"]

TxnAtStart ==
  /\ users = [e \in Emails |-> NoRow]
  /\ subs = { }
  /\ inFlight = [p \in Handlers |-> Idle]
  /\ started = 0

\* a production process with its datastore up
EnvAtStart ==
  /\ nodeEnv = "production"
  /\ dbReachable = TRUE

LimiterAtStart ==
  /\ ListAtStart
  /\ TxnAtStart
  /\ store = [k \in LimKeys |-> NoEntry]
  /\ limOut = NoOut
  /\ win = [k \in LimKeys |-> [start |-> 0, calls |-> 0]]

AppAtStart ==
  /\ LimiterAtStart
  /\ ipHits = [count |-> 0, resetTime |-> 0]
  /\ adminUsers = { }
  /\ served = NoServed
  /\ burst = [start |-> 0, n |-> 0]
  /\ handled = 0

AuthInit ==
  /\ now = Now0
  /\ ticks = 0
  /\ req = NoReq
  /\ res = NoRes
  /\ AppAtStart
  /\ EnvAtStart

\* generateAuthHeaders: the client signs with the current clock reading
ClientSign ==
  /\ req = NoReq
  /\ \E body \in Bodies :
       LET h == generateAuthHeaders(body, ProxyApiKey, ProxySecretKey, now)
       IN  req' = [kind |-> "req", apiKey |-> h.apiKey, signature |-> h.signature,
                   timestamp |-> h.timestamp, body |-> body, tampered |-> FALSE]
  /\ UNCHANGED << now, ticks, res >>
  /\ UNCHANGED nonAuth

\* a client whose clock or timestamp formatting differs from the server's
ClientSignSkewed ==
  /\ req = NoReq
  /\ \E body \in Bodies, ts \in TimestampStrings(now) :
       req' = SignedRequest(body, ts)
  /\ UNCHANGED << now, ticks, res >>
  /\ UNCHANGED nonAuth

TamperSignature ==
  /\ req # NoReq /\ res = NoRes /\ ~req.tampered
  /\ \E sig \in
        UNION { { ReplaceAt(req.signature, i, c) : c \in SigChars(req.signature[i]) } :
                i \in 1..Len(req.signature) }
        \cup { SubSeq(req.signature, 1, Len(req.signature) - k) : k \in 1..Len(req.signature) }
        \cup { req.signature \o << "0" >>, req.signature \o << "0", "0" >>,
               req.signature \o << "z", "z" >> } :
       /\ sig # req.signature
       /\ req' = [req EXCEPT !.signature = sig, !.tampered = TRUE]
  /\ UNCHANGED << now, ticks, res >>
  /\ UNCHANGED nonAuth

TamperApiKey ==
  /\ req # NoReq /\ res = NoRes /\ ~req.tampered
  /\ \E k \in { << >>, << "k", "2" >> } :
       /\ k # req.apiKey
       /\ req' = [req EXCEPT !.apiKey = k, !.tampered = TRUE]
  /\ UNCHANGED << now, ticks, res >>
  /\ UNCHANGED nonAuth

TamperTimestamp ==
  /\ req # NoReq /\ res = NoRes /\ ~req.tampered
  /\ \E ts \in TimestampStrings(now) \cup { << >> } :
       /\ ts # req.timestamp
       /\ req' = [req EXCEPT !.timestamp = ts, !.tampered = TRUE]
  /\ UNCHANGED << now, ticks, res >>
  /\ UNCHANGED nonAuth

TamperBody ==
  /\ req # NoReq /\ res = NoRes /\ ~req.tampered
  /\ \E b \in Bodies :
       /\ b # req.body
       /\ req' = [req EXCEPT !.body = b, !.tampered = TRUE]
  /\ UNCHANGED << now, ticks, res >>
  /\ UNCHANGED nonAuth

Tick ==
  /\ ticks < MaxTicks
  /\ res = NoRes
  /\ \E d \in { 1, WindowMs, WindowMs + 1 } : now' = now + d
  /\ ticks' = ticks + 1
  /\ UNCHANGED << req, res >>
  /\ UNCHANGED nonAuth

\* app.use("/api", authenticateRequest) reaches the middleware
Authenticate ==
  /\ req # NoReq /\ res = NoRes
  /\ res' = authenticateRequest(req, now)
  /\ UNCHANGED << now, ticks, req >>
  /\ UNCHANGED nonAuth

\* the response has been sent, or the next handler has run
Finish ==
  /\ res # NoRes
  /\ req' = NoReq
  /\ res' = NoRes
  /\ UNCHANGED << now, ticks >>
  /\ UNCHANGED nonAuth

AuthNext ==
  \/ ClientSign
  \/ ClientSignSkewed
  \/ TamperSignature
  \/ TamperApiKey
  \/ TamperTimestamp
  \/ TamperBody
  \/ Tick
  \/ Authenticate
  \/ Finish

SpecAuth == AuthInit /\ [][AuthNext]_vars

(***************************************************************************)
(* Claims about the credential verifier                                    *)
(***************************************************************************)
\* the hex digest generateAuthHeaders produces for the body and timestamp
\* string of request r
ExpectedSignature(r) ==
  DigestHex(CreateHmac(ProxySecretKey, JSONStringify(r.body) \o r.timestamp))

\* ts is the decimal form of an integer, as Date.now().toString() writes it
IsIntegerLiteral(ts) ==
  /\ ts # << >>
  /\ \A i \in 1..Len(ts) : IsDigit(ts[i])
  /\ (Len(ts) > 1 => ts[1] # "0")

\* ts is an integer literal no more than WindowMs away from the clock reading t
InWindow(ts, t) ==
  /\ IsIntegerLiteral(ts)
  /\ ParseInt(ts).hi = 0
  /\ Abs(t - ParseInt(ts).lo) <= WindowMs

OutOfWindow(ts, t) ==
  /\ IsIntegerLiteral(ts)
  /\ (ParseInt(ts).hi > 0 \/ Abs(t - ParseInt(ts).lo) > WindowMs)

OneCharOff(a, b) ==
  /\ Len(a) = Len(b)
  /\ Cardinality({ i \in 1..Len(a) : a[i] # b[i] }) = 1

LowerCase(str) == [i \in 1..Len(str) |-> ToLower(str[i])]

Decided == req # NoReq /\ res # NoRes

\* C1 as claimed: a request with the configured key, a timestamp in the
\* window and the expected signature is accepted, and every signature that
\* differs from the expected one in a single character is not accepted.
C1_Original ==
  (Decided /\ req.apiKey = ProxyApiKey /\ InWindow(req.timestamp, res.at)) =>
    /\ (req.signature = ExpectedSignature(req) => res.next)
    /\ (OneCharOff(req.signature, ExpectedSignature(req)) => ~res.next)

\* C1 amended: a request with the configured key, a timestamp in the window
\* and the expected signature is accepted; a signature that differs from the
\* expected one in a single character is not accepted, unless the new
\* character is the upper-case form of the hex digit it replaces, and then
\* the request is accepted.
C1_Amended ==
  (Decided /\ req.apiKey = ProxyApiKey /\ InWindow(req.timestamp, res.at)) =>
    /\ (req.signature = ExpectedSignature(req) => res.next)
    /\ (OneCharOff(req.signature, ExpectedSignature(req)) =>
          (res.next <=> LowerCase(req.signature) = ExpectedSignature(req)))

C1_Witness ==
  /\ Decided /\ req.apiKey = ProxyApiKey /\ InWindow(req.timestamp, res.at)
  /\ OneCharOff(req.signature, ExpectedSignature(req))
  /\ LowerCase(req.signature) # ExpectedSignature(req)
  /\ ~res.next

\* C2 as claimed: a timestamp more than 300000 ms away from the clock, in
\* either direction, is rejected with 401 whatever the signature is; a
\* timestamp at most 300000 ms away passes the timestamp check.
C2_Original ==
  Decided =>
    /\ (OutOfWindow(req.timestamp, res.at) => (~res.next /\ res.status = 401))
    /\ ((InWindow(req.timestamp, res.at) /\ req.apiKey = ProxyApiKey
         /\ req.signature # << >>)
          => res.error # "Request timestamp too old or invalid")

\* C3 as claimed: a rejection for the signature (configured key, timestamp
\* in the window) is a 401 "Invalid signature", whatever the length or the
\* characters of the candidate signature.
C3_Original ==
  (Decided /\ req.apiKey = ProxyApiKey /\ InWindow(req.timestamp, res.at)
   /\ req.signature # << >> /\ ~res.next) =>
    (res.status = 401 /\ res.error = "Invalid signature")

\* C19 as claimed: with the configured key, a timestamp header that is not
\* entirely an integer literal is rejected with 401 as an invalid timestamp,
\* also when it is numerically close to the clock and the signature was
\* made over that same string.
C19_Original ==
  (Decided /\ req.apiKey = ProxyApiKey /\ req.signature # << >>
   /\ req.timestamp # << >> /\ ~IsIntegerLiteral(req.timestamp)) =>
    /\ ~res.next
    /\ res.status = 401
    /\ res.error = "Request timestamp too old or invalid"

(***************************************************************************)
(* app.ts: the middleware chain and the routers                            *)
(***************************************************************************)
\* rateLimit({ windowMs: 15 * 60 * 1000, max: 100 })
IpWindowMs == 900000
IpLimitMax == 100
\* createApiKeyRateLimit(windowMs = 60000, max = 20)
KeyWindowMs == 60000
KeyLimitMax == 20

Route(method, path) == [method |-> method, path |-> path]

AdminLogin  == Route("POST", << "api", "admin", "login" >>)
AdminLogout == Route("POST", << "api", "admin", "logout" >>)
AdminVerify == Route("GET",  << "api", "admin", "verify" >>)
AdminCreate == Route("POST", << "api", "admin", "create" >>)

Routes ==
  { Route("GET",  << "health" >>),
    AdminLogin, AdminLogout, AdminVerify, AdminCreate,
    Route("POST", << "api", "quotes" >>),
    Route("GET",  << "api", "quotes" >>),
    Route("POST", << "api", "suggestions" >>),
    Route("POST", << "api", "contact-support" >>),
    Route("GET",  << "api", "parts" >>),
    Route("GET",  << "api", "nowhere" >>),
    Route("GET",  << >>) }

\* app.use(prefix, ...) applies to every path that starts with prefix
Mounted(prefix, path) ==
  Len(path) >= Len(prefix) /\ SubSeq(path, 1, Len(prefix)) = prefix

\* the limiter of express-rate-limit: a fixed window per source address
IpLimiterHit(hits, t) ==
  IF hits.count = 0 \/ t >= hits.resetTime
  THEN [count |-> 1, resetTime |-> t + IpWindowMs]
  ELSE [hits EXCEPT !.count = @ + 1]

Field(b, key) ==
  IF \E i \in 1..Len(b) : b[i].k = key
  THEN b[CHOOSE i \in 1..Len(b) : b[i].k = key].v
  ELSE << >>

Outcome(status, handler, authenticated, ops) ==
  [handler |-> handler, status |-> status, authenticated |-> authenticated,
   dbOps |-> ops]

\* routes/admin.ts, POST /create
adminCreate(r, admins) ==
  LET email == Field(r.body, "email")
      password == Field(r.body, "password")
  IN  IF email = << >> \/ password = << >> \/ Len(password) < 8
      THEN [out |-> Outcome(400, "admin/create", FALSE, << >>), admins |-> admins]
      ELSE IF \E a \in admins : a.email = email
      THEN [out |-> Outcome(409, "admin/create", FALSE, << "SELECT admin_users" >>),
            admins |-> admins]
      ELSE [out |-> Outcome(200, "admin/create", FALSE,
                            << "SELECT admin_users", "INSERT admin_users" >>),
            admins |-> admins \cup { [email |-> email, password |-> password] }]

\* routes/admin.ts, POST /login: adminLoginSchema, then the stored hash
adminLogin(r, admins) ==
  LET email == Field(r.body, "email")
      password == Field(r.body, "password")
  IN  IF email = << >> \/ Len(password) < 8
      THEN Outcome(400, "admin/login", FALSE, << >>)
      ELSE IF ~ \E a \in admins : a.email = email
      THEN Outcome(401, "admin/login", FALSE, << "SELECT admin_users" >>)
      ELSE IF ~ \E a \in admins : a.email = email /\ a.password = password
      THEN Outcome(401, "admin/login", FALSE, << "SELECT admin_users" >>)
      ELSE Outcome(200, "admin/login", FALSE,
                   << "SELECT admin_users", "UPDATE admin_users", "INSERT audit_logs" >>)

\* routes/admin.ts, POST /logout: answers 200 with or without a valid token
adminLogout(r) ==
  IF r.bearer = "valid"
  THEN Outcome(200, "admin/logout", FALSE, << "INSERT audit_logs" >>)
  ELSE Outcome(200, "admin/logout", FALSE, << >>)

\* routes/admin.ts, GET /verify
adminVerify(r, admins) ==
  IF r.bearer = "none" THEN Outcome(401, "admin/verify", FALSE, << >>)
  ELSE IF r.bearer = "invalid" THEN Outcome(401, "admin/verify", FALSE, << >>)
  ELSE IF admins = { } THEN Outcome(401, "admin/verify", FALSE, << "SELECT admin_users" >>)
  ELSE Outcome(200, "admin/verify", FALSE, << "SELECT admin_users" >>)

\* the routers mounted behind authenticateRequest; dbUp tells whether the
\* datastore answers
protectedHandler(r, dbUp) ==
  LET resource == r.route.path[2]
  IN  IF r.route.method = "POST"
      THEN Outcome(IF dbUp THEN 200 ELSE 500, resource, TRUE,
                   IF dbUp THEN << "BEGIN", "UPSERT users", "INSERT " \o resource, "COMMIT" >>
                   ELSE << "BEGIN" >>)
      ELSE Outcome(IF dbUp THEN 200 ELSE 500, resource, TRUE,
                   IF dbUp THEN << "SELECT COUNT " \o resource, "SELECT " \o resource >>
                   ELSE << "SELECT COUNT " \o resource >>)

\* One request through app.ts, in the order the middleware is registered:
\* limiter, /health, /api/admin, authenticateRequest on /api, the routers,
\* the root endpoint, and Express's own 404.  auth is the decision
\* authenticateRequest takes on r when the request reaches it.
dispatch(r, auth, t, hits, admins, dbUp) ==
  LET same == [admins |-> admins]
  IN  IF IpLimiterHit(hits, t).count > IpLimitMax
      THEN [out |-> Outcome(429, "none", FALSE, << >>)] @@ same
      ELSE IF r.route = Route("GET", << "health" >>)
      THEN [out |-> Outcome(IF dbUp THEN 200 ELSE 503, "health", FALSE,
                            << "SELECT 1" >>)] @@ same
      ELSE IF r.route = AdminLogin  THEN [out |-> adminLogin(r, admins)] @@ same
      ELSE IF r.route = AdminLogout THEN [out |-> adminLogout(r)] @@ same
      ELSE IF r.route = AdminVerify THEN [out |-> adminVerify(r, admins)] @@ same
      ELSE IF r.route = AdminCreate THEN adminCreate(r, admins)
      ELSE IF Mounted(<< "api" >>, r.route.path) /\ ~auth.next
      THEN [out |-> Outcome(auth.status, "none", FALSE, << >>)] @@ same
      ELSE IF Mounted(<< "api" >>, r.route.path)
              /\ r.route.path[2] \in { "quotes", "suggestions", "contact-support", "parts" }
      THEN [out |-> protectedHandler(r, dbUp)] @@ same
      ELSE IF r.route = Route("GET", << >>)
      THEN [out |-> Outcome(200, "root", FALSE, << >>)] @@ same
      ELSE [out |-> Outcome(404, "none", Mounted(<< "api" >>, r.route.path), << >>)] @@ same

\* bodies of the requests sent to the application
AdminBody ==
  << [k |-> "email", t |-> "str", v |-> << "m", "@" >>],
     [k |-> "password", t |-> "str", v |-> << "p", "w", "p", "w", "p", "w", "p", "w" >>] >>

NoCredentials == [apiKey |-> << >>, signature |-> << >>, timestamp |-> << >>]

\* credentials a sender attaches: signed now by a holder of the secret,
\* signed with one signature digit replaced, or none at all
Credentials(body, t) ==
  { generateAuthHeaders(body, ProxyApiKey, ProxySecretKey, t) }
  \cup { [h EXCEPT !.signature = ReplaceAt(@, 1, IF @[1] = "0" THEN "1" ELSE "0")] :
           h \in { generateAuthHeaders(body, ProxyApiKey, ProxySecretKey, t) } }
  \cup { NoCredentials }

Request(route, h, body, bearer) ==
  [kind |-> "req", route |-> route, apiKey |-> h.apiKey, signature |-> h.signature,
   timestamp |-> h.timestamp, body |-> body, bearer |-> bearer]

\* the requests senders direct at the application when the clock reads t
AppRequests(t) ==
  { Request(AdminLogin, NoCredentials, b, "none") : b \in { << >>, AdminBody } }
  \cup { Request(AdminCreate, NoCredentials, b, "none") : b \in { << >>, AdminBody } }
  \cup { Request(route, NoCredentials, << >>, bearer) :
           route \in { AdminLogout, AdminVerify }, bearer \in { "none", "valid", "invalid" } }
  \cup { Request(route, h, << >>, "none") :
           route \in Routes \ { AdminLogin, AdminLogout, AdminVerify, AdminCreate },
           h \in Credentials(<< >>, t) }

\* requests to the endpoints behind authenticateRequest, signed by the
\* holder of the configured key when the clock reads t
SignedRequests(t) ==
  { Request(route, generateAuthHeaders(<< >>, ProxyApiKey, ProxySecretKey, t), << >>, "none") :
      route \in { Route("POST", << "api", "quotes" >>), Route("GET", << "api", "quotes" >>),
                  Route("GET", << "api", "parts" >>) } }

\* the observer of C6: correctly authenticated requests with the configured
\* key, counted from the first one of the current 60 s
BurstHit(b, r, auth, t) ==
  IF ~(r.apiKey = ProxyApiKey /\ auth.next) THEN b
  ELSE IF b.n = 0 \/ t - b.start >= KeyWindowMs THEN [start |-> t, n |-> 1]
  ELSE [b EXCEPT !.n = @ + 1]

\* the process has started, or has already answered 99 unauthenticated
\* requests of the source address in the current 15 minutes
AppInit ==
  /\ now = Now0
  /\ ticks = 0
  /\ req = NoReq
  /\ res = NoRes
  /\ adminUsers = { }
  /\ served = NoServed
  /\ burst = [start |-> 0, n |-> 0]
  /\ handled = 0
  /\ LimiterAtStart
  /\ EnvAtStart
  /\ ipHits \in { [count |-> 0, resetTime |-> 0],
                  [count |-> IpLimitMax - 1, resetTime |-> Now0 + IpWindowMs] }

\* request r runs through the middleware chain to its response
HandleRequest(r, dbUp) ==
  /\ \E auth \in { authenticateRequest(r, now) } :
       \E d \in { dispatch(r, auth, now, ipHits, adminUsers, dbUp) } :
         /\ served' = [kind |-> "served", route |-> r.route, out |-> d.out,
                       credentialsOk |-> auth.next]
         /\ adminUsers' = d.admins
         /\ burst' = BurstHit(burst, r, auth, now)
  /\ ipHits' = IpLimiterHit(ipHits, now)
  /\ handled' = handled + 1
  /\ UNCHANGED << now, ticks, req, res >>
  /\ UNCHANGED nonApp

\* any request arrives
Handle ==
  /\ handled < MaxRequests
  /\ \E r \in AppRequests(now), dbUp \in BOOLEAN : HandleRequest(r, dbUp)

\* time passes between requests
AppTick ==
  /\ ticks < MaxTicks
  /\ now' = now + KeyWindowMs
  /\ ticks' = ticks + 1
  /\ UNCHANGED << req, res, appVars >>
  /\ UNCHANGED nonApp

AppNext ==
  \/ Handle
  \/ AppTick

SpecApp == AppInit /\ [][AppNext]_vars

(***************************************************************************)
(* One client of the protected endpoints: every request it sends is        *)
(* correctly signed with the configured key.                               *)
(***************************************************************************)
BurstInit ==
  /\ now = Now0
  /\ ticks = 0
  /\ req = NoReq
  /\ res = NoRes
  /\ AppAtStart
  /\ EnvAtStart

\* a correctly signed request arrives at a protected endpoint
HandleSigned ==
  /\ handled <= KeyLimitMax
  /\ \E r \in SignedRequests(now), dbUp \in BOOLEAN : HandleRequest(r, dbUp)

\* a second of the minute passes
SecondTick ==
  /\ ticks < MaxTicks
  /\ now' = now + 1000
  /\ ticks' = ticks + 1
  /\ UNCHANGED << req, res, appVars >>
  /\ UNCHANGED nonApp

BurstNext ==
  \/ HandleSigned
  \/ SecondTick
  \/ AppTick

SpecBurst == BurstInit /\ [][BurstNext]_vars

(***************************************************************************)
(* Claims about the application as wired                                   *)
(***************************************************************************)
\* a route below /api other than admin login and admin verify
ProtectedRoute(route) ==
  Mounted(<< "api" >>, route.path) /\ route \notin { AdminLogin, AdminVerify }

\* C4 as claimed: on every route under /api/ other than admin login and
\* admin verify the handler runs, and datastore statements are issued, only
\* after authenticateRequest has accepted the request's headers.
C4_Original ==
  (served # NoServed /\ ProtectedRoute(served.route)
   /\ (served.out.handler # "none" \/ served.out.dbOps # << >>)) =>
    (served.out.authenticated /\ served.credentialsOk)

\* C6 as claimed: the 21st of 21 correctly authenticated requests sent
\* within 60 seconds with the same API key is answered 429.
C6_Original ==
  (served # NoServed /\ served.credentialsOk /\ burst.n > KeyLimitMax
   /\ now - burst.start < KeyWindowMs) =>
    served.out.status = 429

(***************************************************************************)
(* middleware/auth.ts: createApiKeyRateLimit                               *)
(***************************************************************************)
\* Math.ceil(n / d) for an integer n and d > 0
Ceil(n, d) == -((-n) \div d)

\* a limiter whose increment is lost: the allowed call writes back the
\* count it read
apiKeyRateLimitLosing(windowMs, max, apiKey, st, t) ==
  IF apiKey = << >>
  THEN [store |-> st, next |-> TRUE, status |-> 0, retryAfter |-> 0]
  ELSE LET keyData == st[apiKey]
       IN  IF keyData = [kind |-> "none"] \/ t > keyData.resetTime
           THEN [store |-> [st EXCEPT ![apiKey] =
                              [kind |-> "entry", count |-> 1, resetTime |-> t + windowMs]],
                 next |-> TRUE, status |-> 0, retryAfter |-> 0]
           ELSE IF keyData.count >= max
           THEN [store |-> st, next |-> FALSE, status |-> 429,
                 retryAfter |-> -((t - keyData.resetTime) \div 1000)]
           ELSE [store |-> st, next |-> TRUE, status |-> 0, retryAfter |-> 0]

\* a limiter that also counts the calls it denies
apiKeyRateLimitCounting(windowMs, max, apiKey, st, t) ==
  IF apiKey = << >>
  THEN [store |-> st, next |-> TRUE, status |-> 0, retryAfter |-> 0]
  ELSE LET keyData == st[apiKey]
       IN  IF keyData = [kind |-> "none"] \/ t > keyData.resetTime
           THEN [store |-> [st EXCEPT ![apiKey] =
                              [kind |-> "entry", count |-> 1, resetTime |-> t + windowMs]],
                 next |-> TRUE, status |-> 0, retryAfter |-> 0]
           ELSE IF keyData.count >= max
           THEN [store |-> [st EXCEPT ![apiKey].count = @ + 1],
                 next |-> FALSE, status |-> 429,
                 retryAfter |-> -((t - keyData.resetTime) \div 1000)]
           ELSE [store |-> [st EXCEPT ![apiKey].count = @ + 1],
                 next |-> TRUE, status |-> 0, retryAfter |-> 0]

\* One call of the middleware returned by createApiKeyRateLimit(windowMs,
\* max): apiKey is the x-api-key header (<< >> when absent), st the Map, t
\* the reading of Date.now().
apiKeyRateLimit(windowMs, max, apiKey, st, t) ==
  IF apiKey = << >>
  THEN [store |-> st, next |-> TRUE, status |-> 0, retryAfter |-> 0]
  ELSE LET keyData == st[apiKey]
       IN  IF keyData = NoEntry \/ t > keyData.resetTime
           THEN [store |-> [st EXCEPT ![apiKey] =
                              [kind |-> "entry", count |-> 1, resetTime |-> t + windowMs]],
                 next |-> TRUE, status |-> 0, retryAfter |-> 0]
           ELSE IF keyData.count >= max
           THEN [store |-> st, next |-> FALSE, status |-> 429,
                 retryAfter |-> Ceil(keyData.resetTime - t, 1000)]
           ELSE [store |-> [st EXCEPT ![apiKey].count = @ + 1],
                 next |-> TRUE, status |-> 0, retryAfter |-> 0]

\* the observer of C5: the window of a key opens with its first call, or
\* with its first call after the Map entry's reset time has passed
WindowHit(w, t, windowMs) ==
  IF w.calls = 0 \/ t > w.start + windowMs
  THEN [start |-> t, calls |-> 1]
  ELSE [w EXCEPT !.calls = @ + 1]

LimInit ==
  /\ now = Now0
  /\ ticks = 0
  /\ req = NoReq
  /\ res = NoRes
  /\ AppAtStart
  /\ EnvAtStart

\* a request reaches the limiter
LimiterCall ==
  /\ limOut.seq < MaxCalls
  /\ \E apiKey \in LimKeys \cup { << >> } :
       \E d \in { apiKeyRateLimit(KeyWindowMs, LimMax, apiKey, store, now) } :
         /\ store' = d.store
         /\ limOut' = [kind |-> "out", apiKey |-> apiKey, next |-> d.next,
                       status |-> d.status, retryAfter |-> d.retryAfter, at |-> now,
                       before |-> store,
                       seq |-> limOut.seq + 1]
         /\ win' = IF apiKey = << >> THEN win
                   ELSE [win EXCEPT ![apiKey] = WindowHit(@, now, KeyWindowMs)]
  /\ UNCHANGED << now, ticks, req, res, appVars >>
  /\ UNCHANGED nonLim

\* time passes between calls
LimTick ==
  /\ ticks < MaxTicks
  /\ \E d \in { 1, KeyWindowMs - 1, KeyWindowMs } : now' = now + d
  /\ ticks' = ticks + 1
  /\ UNCHANGED << req, res, appVars, limVars >>
  /\ UNCHANGED nonLim

LimNext ==
  \/ LimiterCall
  \/ LimTick

SpecLimiter == LimInit /\ [][LimNext]_vars

(***************************************************************************)
(* Claims about the per-key limiter                                        *)
(***************************************************************************)
\* C5 as claimed: for any one key the first max calls of a window are
\* allowed, every further call in the same window is denied with 429 and a
\* retryAfter greater than 0, and the first call after the window is
\* allowed again.
C5_Original ==
  (limOut # NoOut /\ limOut.apiKey # << >>) =>
    LET w == win[limOut.apiKey]
    IN  /\ (w.calls <= LimMax => limOut.next)
        /\ (w.calls > LimMax =>
              (~limOut.next /\ limOut.status = 429 /\ limOut.retryAfter > 0))

\* C20: a denied call reports retryAfter = ceil((resetTime - now) / 1000),
\* the least number of whole seconds that reaches the reset time, and
\* leaves the key's entry as it was; an allowed call in an open window adds
\* exactly 1 to that key's count and keeps its reset time; no call changes
\* the entry of another key, and a call without a key changes none.
C20_Frame ==
  limOut # NoOut =>
    /\ \A o \in LimKeys \ {limOut.apiKey} : store[o] = limOut.before[o]
    /\ limOut.apiKey # << >> =>
         LET b == limOut.before[limOut.apiKey]
             a == store[limOut.apiKey]
         IN  /\ ~limOut.next =>
                  /\ limOut.status = 429
                  /\ b # NoEntry
                  /\ limOut.retryAfter * 1000 >= b.resetTime - limOut.at
                  /\ (limOut.retryAfter - 1) * 1000 < b.resetTime - limOut.at
                  /\ a = b
             /\ (limOut.next /\ b # NoEntry /\ limOut.at <= b.resetTime) =>
                  /\ a.count = b.count + 1
                  /\ a.resetTime = b.resetTime

\* a call for one key has been denied part of a second into its window,
\* while the other key has an entry of its own
C20_Witness ==
  /\ limOut # NoOut /\ limOut.apiKey # << >>
  /\ ~limOut.next
  /\ limOut.retryAfter = 60
  /\ limOut.at = store[limOut.apiKey].resetTime - KeyWindowMs + 1
  /\ store[limOut.apiKey].count = LimMax
  /\ \E o \in LimKeys \ {limOut.apiKey} : store[o] # NoEntry

\* C21: the middleware runs from store.get to store.set or count++ without
\* an await, so the calls of simultaneously handled requests take effect one
\* after the other in some order.  For every order, and for both keys mixed:
\* no update is lost (the stored count is the number of calls of the window,
\* up to max), the count never exceeds max, the entry's reset time is the
\* start of the window plus its length, and a call is allowed exactly when
\* fewer than max calls of its window came before it.
C21_NoRace ==
  /\ \A k \in LimKeys :
       IF store[k] = NoEntry THEN win[k].calls = 0
       ELSE /\ store[k].count = Min(win[k].calls, LimMax)
            /\ store[k].count <= LimMax
            /\ store[k].resetTime = win[k].start + KeyWindowMs
  /\ (limOut # NoOut /\ limOut.apiKey # << >>) =>
       (limOut.next <=> win[limOut.apiKey].calls <= LimMax)

\* calls for the two keys have been handled in turn within one window: one
\* key is at its maximum and its last call was denied, the other is not
C21_Witness ==
  /\ limOut # NoOut /\ limOut.apiKey # << >> /\ ~limOut.next
  /\ store[limOut.apiKey].count = LimMax
  /\ win[limOut.apiKey].calls = LimMax + 1
  /\ \E o \in LimKeys \ {limOut.apiKey} :
       /\ store[o] # NoEntry /\ store[o].count = 1
       /\ store[o].resetTime > store[limOut.apiKey].resetTime

(***************************************************************************)
(* List endpoints: query validation and the WHERE-clause builders          *)
(*                                                                         *)
(* Query text is a sequence of tokens: a fixed fragment of the template,   *)
(* a single quote, a placeholder "$n", or a character of a client string.  *)
(***************************************************************************)
MaxSearchLen == 2

\* a query-string parameter: absent, or present with its text
Absent == [present |-> FALSE, v |-> << >>]
Given(v) == [present |-> TRUE, v |-> v]

\* values after validation, as they are bound to a query
Str(s) == [t |-> "string", n |-> 0, s |-> s]
Num(n) == [t |-> "number", n |-> n, s |-> << >>]
Bool(b) == [t |-> "boolean", n |-> IF b THEN 1 ELSE 0, s |-> << >>]

\* if (value): JavaScript truthiness
Truthy(val) == IF val.t = "string" THEN val.s # << >> ELSE val.n # 0

RECURSIVE TrimEnd(_)
TrimEnd(s) ==
  IF s # << >> /\ s[Len(s)] = " " THEN TrimEnd(SubSeq(s, 1, Len(s) - 1)) ELSE s

\* Number(string), which z.coerce.number() applies: the whole trimmed text
\* must be a numeric literal; the empty text is 0
ToNumber(str) ==
  LET t    == TrimEnd(TrimStart(str))
      neg  == t # << >> /\ t[1] = "-"
      sign == t # << >> /\ t[1] \in {"-", "+"}
      u    == IF sign THEN Tail(t) ELSE t
      hex  == ~sign /\ Len(u) > 2 /\ u[1] = "0" /\ u[2] \in {"x", "X"}
      body == IF hex THEN SubSeq(u, 3, Len(u)) ELSE u
      acc  == Accumulate(body, IF hex THEN 16 ELSE 10, 0, 0, FALSE)
      all  == \A i \in 1..Len(body) :
                HexVal(body[i]) >= 0 /\ HexVal(body[i]) < (IF hex THEN 16 ELSE 10)
  IN  IF t = << >> THEN [nan |-> FALSE, neg |-> FALSE, hi |-> 0, lo |-> 0]
      ELSE IF ~acc.seen \/ ~all THEN NaN
      ELSE [nan |-> FALSE, neg |-> neg, hi |-> acc.hi, lo |-> acc.lo]

\* z.string().datetime(): ISO 8601 date-times, here two of them
Datetimes == { << "2024-01-01T00:00:00Z" >>, << "2024-12-31T00:00:00Z" >> }

\* the n-th placeholder `$${paramCount}`
PlaceholderTokens == << "$1", "$2", "$3", "$4", "$5", "$6", "$7", "$8", "$9" >>

Placeholder(n) == PlaceholderTokens[n]

\* one optional filter of a schema and the clause the handler builds for it:
\* type is the zod type, test is "truthy" for `if (filters.x)` and "defined"
\* for `if (filters.x !== undefined)`
Filter(name, type, values, before, after, test) ==
  [name |-> name, type |-> type, values |-> values,
   before |-> before, after |-> after, test |-> test]

Equals(name, type, values, column) ==
  Filter(name, type, values, << column >>, << >>, "truthy")

\* GET /api/quotes
QuotesList ==
  [name |-> "quotes",
   countFrom |-> << "SELECT COUNT(*) as total FROM quote_requests qr " >>,
   pageFrom |-> << "SELECT qr.*, u.* FROM quote_requests qr JOIN users u ON qr.user_id = u.id " >>,
   filters |-> << Equals("status", "enum",
                         {"submitted", "reviewing", "quoted", "accepted", "rejected", "expired"},
                         "qr.status = "),
                  Equals("urgency", "enum",
                         {"immediate", "within_week", "within_month", "flexible"},
                         "qr.urgency = "),
                  Equals("startDate", "datetime", { }, "qr.created_at >= "),
                  Equals("endDate", "datetime", { }, "qr.created_at <= ") >>]

\* GET /api/suggestions
SuggestionsList ==
  [name |-> "suggestions",
   countFrom |-> << "SELECT COUNT(*) as total FROM part_suggestions ps " >>,
   pageFrom |-> << "SELECT ps.*, u.* FROM part_suggestions ps JOIN users u ON ps.user_id = u.id " >>,
   filters |-> << Equals("status", "enum",
                         {"submitted", "reviewing", "approved", "rejected", "implemented"},
                         "ps.status = "),
                  Equals("category", "string", { }, "ps.category = "),
                  Equals("startDate", "datetime", { }, "ps.created_at >= "),
                  Equals("endDate", "datetime", { }, "ps.created_at <= ") >>]

\* GET /api/contact-support
ContactList ==
  [name |-> "contact-support",
   countFrom |-> << "SELECT COUNT(*) as total FROM contact_support_requests csr " >>,
   pageFrom |-> << "SELECT csr.*, u.* FROM contact_support_requests csr JOIN users u ON csr.user_id = u.id " >>,
   filters |-> << Equals("status", "enum",
                         {"open", "in_progress", "resolved", "closed"},
                         "csr.status = "),
                  Equals("priority", "enum",
                         {"low", "normal", "high", "urgent"},
                         "csr.priority = "),
                  Equals("category", "enum",
                         {"general", "technical", "order", "quote", "other"},
                         "csr.category = "),
                  Equals("assignedTo", "string", { }, "csr.assigned_to = "),
                  Equals("startDate", "datetime", { }, "csr.created_at >= "),
                  Equals("endDate", "datetime", { }, "csr.created_at <= ") >>]

\* to_tsvector('english', COALESCE(name, '') || ' ' || ... ), with the
\* quotes of its string literals kept as tokens
TsVector ==
  << "to_tsvector(", "'", "english", "'", ", COALESCE(name, ", "'", "'",
     ") || ", "'", " ", "'", " || COALESCE(category, ", "'", "'", "))" >>

\* GET /api/parts
PartsList ==
  [name |-> "parts",
   countFrom |-> << "SELECT COUNT(*) as total FROM parts " >>,
   pageFrom |-> << "SELECT id, sku, name FROM parts " >>,
   filters |-> << Filter("search", "string", { },
                         TsVector \o << " @@ plainto_tsquery(", "'", "english", "'", ", " >>,
                         << ")" >>, "truthy"),
                  Equals("category", "string", { }, "category = "),
                  Equals("manufacturer", "string", { }, "manufacturer = "),
                  Filter("minPrice", "number", { }, << "base_price >= " >>, << >>, "defined"),
                  Filter("maxPrice", "number", { }, << "base_price <= " >>, << >>, "defined"),
                  Equals("availability", "string", { }, "availability_status = "),
                  Filter("featured", "boolean", { }, << "featured = " >>, << >>, "defined") >>]

ListEndpoints == { QuotesList, SuggestionsList, ContactList, PartsList }

FilterNames(ep) == { ep.filters[i].name : i \in 1..Len(ep.filters) }

\* the integer a parsed number stands for
IntOf(n) == (IF n.neg THEN -1 ELSE 1) * (n.hi * Limb + n.lo)

\* one optional field of a zod object schema applied to req.query
ParseField(fd, p) ==
  IF ~p.present THEN [ok |-> TRUE, present |-> FALSE, val |-> Str(<< >>)]
  ELSE IF fd.type = "enum"
    THEN [ok |-> Len(p.v) = 1 /\ p.v[1] \in fd.values, present |-> TRUE, val |-> Str(p.v)]
  ELSE IF fd.type = "datetime"
    THEN [ok |-> p.v \in Datetimes, present |-> TRUE, val |-> Str(p.v)]
  ELSE IF fd.type = "number"
    THEN LET n == ToNumber(p.v)
         IN  [ok |-> ~n.nan, present |-> TRUE, val |-> Num(IF n.nan THEN 0 ELSE IntOf(n))]
  ELSE IF fd.type = "boolean"
    THEN [ok |-> TRUE, present |-> TRUE, val |-> Bool(p.v # << >>)]
  ELSE [ok |-> TRUE, present |-> TRUE, val |-> Str(p.v)]

\* z.coerce.number().int().positive()[.max(max)].default(dflt)
ParseCount(p, max, dflt) ==
  IF ~p.present THEN [ok |-> TRUE, n |-> dflt]
  ELSE LET n == ToNumber(p.v)
       IN  IF n.nan THEN [ok |-> FALSE, n |-> 0]
           ELSE [ok |-> ~n.neg /\ IntOf(n) > 0 /\ (max > 0 => (n.hi = 0 /\ n.lo <= max)),
                 n |-> IntOf(n)]

DefaultPage == 1
DefaultLimit == 50
MaxLimit == 100

\* schema.parse(req.query): the pagination fields and the endpoint's filters
ParseQuery(ep, q) ==
  LET page  == ParseCount(q["page"], 0, DefaultPage)
      limit == ParseCount(q["limit"], MaxLimit, DefaultLimit)
      f     == [n \in FilterNames(ep) |->
                  ParseField(CHOOSE fd \in { ep.filters[i] : i \in 1..Len(ep.filters) } :
                               fd.name = n, q[n])]
  IN  [ok |-> page.ok /\ limit.ok /\ \A n \in FilterNames(ep) : f[n].ok,
       page |-> page.n, limit |-> limit.n, f |-> f]

\* the test a handler applies before it adds the clause of a filter
Active(fd, fv) == fv.present /\ (fd.test = "defined" \/ Truthy(fv.val))

\* the filters whose `if (filters.x) { push; push; paramCount++ }` block
\* runs, in the order of the blocks
ActiveFilters(fds, f) == SelectSeq(fds, LAMBDA fd : Active(fd, f[fd.name]))

\* whereClauses and params after the chain of blocks: the k-th block that
\* runs finds paramCount = k
WhereClauses(fds, f) ==
  LET on == ActiveFilters(fds, f)
  IN  [clauses |-> [k \in 1..Len(on) |->
                      on[k].before \o << Placeholder(k) >> \o on[k].after],
       params |-> [k \in 1..Len(on) |-> f[on[k].name].val]]

\* Array.prototype.join
RECURSIVE Join(_, _)
Join(parts, sep) ==
  IF parts = << >> THEN << >>
  ELSE IF Len(parts) = 1 THEN parts[1]
  ELSE parts[1] \o << sep >> \o Join(Tail(parts), sep)

\* String.prototype.replace(pattern, replacement) with a string pattern:
\* only the first occurrence is replaced
RECURSIVE ReplaceFirst(_, _, _)
ReplaceFirst(s, pattern, replacement) ==
  IF s = << >> THEN << >>
  ELSE IF s[1] = pattern THEN replacement \o Tail(s)
  ELSE << s[1] >> \o ReplaceFirst(Tail(s), pattern, replacement)

\* the ORDER BY list of the page query
OrderBy(ep, f) ==
  IF ep.name = "parts"
  THEN (IF f["featured"].present THEN << "featured DESC," >> ELSE << >>)
       \o (IF f["search"].present /\ Truthy(f["search"].val)
           THEN << "ts_rank(" >> \o TsVector
                \o << ", plainto_tsquery(", "'", "english", "'", ", ", "'" >>
                \o ReplaceFirst(f["search"].val.s, "'", << "'", "'" >>)
                \o << "'", ")) DESC," >>
           ELSE << >>)
       \o << "created_at DESC" >>
  ELSE << "created_at DESC" >>

ListRefused(status) ==
  [status |-> status, page |-> 0, limit |-> 0, offset |-> 0, active |-> { },
   countText |-> << >>, countParams |-> << >>, countIssued |-> FALSE,
   pageText |-> << >>, pageParams |-> << >>]

\* a builder that appends limit and offset before the COUNT query is sent
listQueriesPushedEarly(ep, filters) ==
  LET offset      == (filters.page - 1) * filters.limit
      w           == WhereClauses(ep.filters, filters.f)
      paramCount  == Len(w.params) + 1
      whereClause == IF Len(w.clauses) > 0
                     THEN << "WHERE " >> \o Join(w.clauses, " AND ")
                     ELSE << >>
  IN  [status |-> 200, page |-> filters.page, limit |-> filters.limit,
       offset |-> offset,
       active |-> { n \in FilterNames(ep) :
                      \E i \in 1..Len(ep.filters) :
                        ep.filters[i].name = n /\ Active(ep.filters[i], filters.f[n]) },
       countText |-> ep.countFrom \o whereClause,
       countParams |-> w.params \o << Num(filters.limit), Num(offset) >>,
       countIssued |-> TRUE,
       pageText |-> ep.pageFrom \o whereClause \o << " ORDER BY " >>
                    \o OrderBy(ep, filters.f)
                    \o << " LIMIT ", Placeholder(paramCount),
                          " OFFSET ", Placeholder(paramCount + 1) >>,
       pageParams |-> w.params \o << Num(filters.limit), Num(offset) >>]

\* a builder whose parameter array lives in the module and is never emptied
listQueriesShared(ep, filters) ==
  LET offset      == (filters.page - 1) * filters.limit
      w           == WhereClauses(ep.filters, filters.f)
      kept        == IF list = [kind |-> "none"] THEN << >> ELSE list.out.countParams
      paramCount  == Len(kept) + Len(w.params) + 1
      whereClause == IF Len(w.clauses) > 0
                     THEN << "WHERE " >> \o Join(w.clauses, " AND ")
                     ELSE << >>
  IN  [status |-> 200, page |-> filters.page, limit |-> filters.limit,
       offset |-> offset,
       active |-> { n \in FilterNames(ep) :
                      \E i \in 1..Len(ep.filters) :
                        ep.filters[i].name = n /\ Active(ep.filters[i], filters.f[n]) },
       countText |-> ep.countFrom \o whereClause,
       countParams |-> kept \o w.params,
       countIssued |-> TRUE,
       pageText |-> ep.pageFrom \o whereClause \o << " ORDER BY " >>
                    \o OrderBy(ep, filters.f)
                    \o << " LIMIT ", Placeholder(paramCount),
                          " OFFSET ", Placeholder(paramCount + 1) >>,
       pageParams |-> kept \o w.params \o << Num(filters.limit), Num(offset) >>]

\* the two queries of a list handler, after schema.parse has succeeded
listQueries(ep, filters) ==
  LET offset      == (filters.page - 1) * filters.limit
      w           == WhereClauses(ep.filters, filters.f)
      paramCount  == Len(w.params) + 1
      whereClause == IF Len(w.clauses) > 0
                     THEN << "WHERE " >> \o Join(w.clauses, " AND ")
                     ELSE << >>
  IN  [status |-> 200, page |-> filters.page, limit |-> filters.limit,
       offset |-> offset,
       active |-> { n \in FilterNames(ep) :
                      \E i \in 1..Len(ep.filters) :
                        ep.filters[i].name = n /\ Active(ep.filters[i], filters.f[n]) },
       countText |-> ep.countFrom \o whereClause,
       countParams |-> w.params,
       countIssued |-> TRUE,
       pageText |-> ep.pageFrom \o whereClause \o << " ORDER BY " >>
                    \o OrderBy(ep, filters.f)
                    \o << " LIMIT ", Placeholder(paramCount),
                          " OFFSET ", Placeholder(paramCount + 1) >>,
       pageParams |-> w.params \o << Num(filters.limit), Num(offset) >>]

\* router.get('/') of quotes, suggestions, contact-support and parts: a
\* ZodError is answered 400 (the set binds the parsed query once)
listHandler(ep, q) ==
  CHOOSE out \in { IF filters.ok THEN listQueries(ep, filters) ELSE ListRefused(400) :
                   filters \in { ParseQuery(ep, q) } } : TRUE

FeaturedDefault == 10

\* router.get('/featured'): parseInt(req.query.limit) || 10
featuredHandler(q) ==
  LET n     == IF q["limit"].present THEN ParseInt(q["limit"].v) ELSE NaN
      limit == IF n.nan \/ IntOf(n) = 0 THEN FeaturedDefault ELSE IntOf(n)
  IN  [status |-> 200, page |-> 1, limit |-> limit, offset |-> 0, active |-> { },
       countText |-> << >>, countParams |-> << >>, countIssued |-> FALSE,
       pageText |-> << "SELECT id, sku, name FROM parts WHERE featured = TRUE",
                       " ORDER BY featured_date DESC NULLS LAST, created_at DESC",
                       " LIMIT ", Placeholder(1) >>,
       pageParams |-> << Num(limit) >>]

(***************************************************************************)
(* Specification of the list endpoints: one list request is served, the    *)
(* same request may be sent again with one value changed, and the          *)
(* responses are delivered.                                                *)
(***************************************************************************)
\* the characters of a client's search term
SearchChars == { "a", "'", "$1" }

RECURSIVE Strings(_, _)
Strings(alphabet, n) ==
  IF n = 0 THEN { << >> }
  ELSE LET shorter == Strings(alphabet, n - 1)
       IN  shorter \cup { << c >> \o t : c \in alphabet, t \in { u \in shorter : Len(u) = n - 1 } }

Valid(values) == CHOOSE v \in values : TRUE

\* the texts a client sends for a filter
FilterInputs(fd) ==
  IF fd.name = "search" THEN {Absent} \cup { Given(t) : t \in Strings(SearchChars, MaxSearchLen) }
  ELSE IF fd.type = "enum" THEN {Absent, Given(<< Valid(fd.values) >>), Given(<< "z" >>)}
  ELSE IF fd.type = "datetime" THEN {Absent, Given(Valid(Datetimes))}
  ELSE IF fd.type = "number" THEN {Absent, Given(<< "0" >>), Given(<< "5" >>)}
  ELSE IF fd.type = "boolean" THEN {Absent, Given(<< >>), Given(<< "false" >>)}
  ELSE IF fd.name \in {"category", "assignedTo"} THEN {Absent, Given(<< >>), Given(<< "a" >>)}
  ELSE {Absent, Given(<< "a" >>)}

\* another text for the same filter
OtherInput(fd) ==
  IF fd.type = "enum" THEN Given(<< Valid(fd.values \ {Valid(fd.values)}) >>)
  ELSE IF fd.type = "datetime" THEN Given(Valid(Datetimes \ {Valid(Datetimes)}))
  ELSE IF fd.type = "number" THEN Given(<< "7" >>)
  ELSE IF fd.type = "boolean" THEN Given(<< "true" >>)
  ELSE Given(<< "b" >>)

PageInputs(ep) ==
  IF Len(ep.filters) <= 4
  THEN {Absent, Given(<< "2" >>), Given(<< "0" >>)}
  ELSE {Absent, Given(<< "2" >>)}

LimitInputs(ep) ==
  IF Len(ep.filters) <= 4
  THEN {Absent, Given(<< "1", "0", "0" >>), Given(<< "1", "0", "1" >>), Given(<< "z" >>)}
  ELSE {Absent, Given(<< "1", "0", "1" >>)}

FeaturedInputs ==
  {Absent, Given(<< "0" >>), Given(<< "-", "1" >>), Given(<< "1", "0", "0" >>),
   Given(<< "1", "0", "0", "0" >>), Given(<< "z" >>)}

\* req.query of a list request: one text, or none, per parameter
RECURSIVE FilterQueries(_, _)
FilterQueries(ep, i) ==
  IF i > Len(ep.filters)
  THEN { [n \in {"page", "limit"} |-> IF n = "page" THEN pg ELSE lm] :
           pg \in PageInputs(ep), lm \in LimitInputs(ep) }
  ELSE LET fd == ep.filters[i]
       IN  { [n \in DOMAIN q \cup {fd.name} |-> IF n = fd.name THEN v ELSE q[n]] :
               q \in FilterQueries(ep, i + 1), v \in FilterInputs(fd) }

Queries(ep) == FilterQueries(ep, 1)

Served(name, q, out) == [kind |-> "served", endpoint |-> name, query |-> q, out |-> out]

ListInit ==
  /\ now = Now0
  /\ ticks = 0
  /\ req = NoReq
  /\ res = NoRes
  /\ AppAtStart
  /\ EnvAtStart

\* GET on one of the four list endpoints
ServeList ==
  /\ list = NoList
  /\ \E ep \in ListEndpoints : \E q \in Queries(ep) :
       list' = Served(ep.name, q, listHandler(ep, q))
  /\ list2' = NoList
  /\ UNCHANGED << now, ticks, req, res >>
  /\ UNCHANGED nonList

\* GET /api/parts/featured
ServeFeatured ==
  /\ list = NoList
  /\ \E lm \in FeaturedInputs :
       LET q == [n \in {"page", "limit"} |-> IF n = "limit" THEN lm ELSE Absent]
       IN  list' = Served("featured", q, featuredHandler(q))
  /\ list2' = NoList
  /\ UNCHANGED << now, ticks, req, res >>
  /\ UNCHANGED nonList

\* the same list request again, with another value for one of its filters
Resend ==
  /\ list # NoList
  /\ list2 = NoList
  /\ \E ep \in ListEndpoints : \E i \in 1..Len(ep.filters) :
       /\ ep.name = list.endpoint
       /\ list.query[ep.filters[i].name].present
       /\ LET q == [list.query EXCEPT ![ep.filters[i].name] = OtherInput(ep.filters[i])]
          IN  list2' = Served(ep.name, q, listHandler(ep, q))
  /\ UNCHANGED << now, ticks, req, res, list >>
  /\ UNCHANGED nonList

\* the same list request a second time
Repeat ==
  /\ list # NoList
  /\ list2 = NoList
  /\ \/ \E ep \in ListEndpoints :
          /\ ep.name = list.endpoint
          /\ list2' = Served(ep.name, list.query, listHandler(ep, list.query))
     \/ /\ list.endpoint = "featured"
        /\ list2' = Served("featured", list.query, featuredHandler(list.query))
  /\ UNCHANGED << now, ticks, req, res, list >>
  /\ UNCHANGED nonList

\* the responses have been delivered
ListDone ==
  /\ list # NoList
  /\ list' = NoList
  /\ list2' = NoList
  /\ UNCHANGED << now, ticks, req, res >>
  /\ UNCHANGED nonList

ListNext == ServeList \/ ServeFeatured \/ Resend \/ Repeat \/ ListDone

SpecList == ListInit /\ [][ListNext]_vars

(***************************************************************************)
(* Properties of the list endpoints                                        *)
(***************************************************************************)
\* the placeholders the database finds in a query text, in order: a token
\* "$n" outside a string literal; a single quote opens or closes a literal,
\* and a doubled quote inside a literal closes and reopens it
RECURSIVE PlaceholdersIn(_, _)
PlaceholdersIn(text, inLiteral) ==
  IF text = << >> THEN << >>
  ELSE IF text[1] = "'" THEN PlaceholdersIn(Tail(text), ~inLiteral)
  ELSE IF ~inLiteral /\ \E n \in 1..Len(PlaceholderTokens) : PlaceholderTokens[n] = text[1]
    THEN << CHOOSE n \in 1..Len(PlaceholderTokens) : PlaceholderTokens[n] = text[1] >>
         \o PlaceholdersIn(Tail(text), inLiteral)
  ELSE PlaceholdersIn(Tail(text), inLiteral)

Numbered(text, params) == PlaceholdersIn(text, FALSE) = [k \in 1..Len(params) |-> k]

ListAnswered(l) == l # NoList /\ l.out.status = 200

\* C7: in every query a list endpoint issues, the placeholders are numbered
\* 1, 2, ... in order with none reused or skipped, and there are as many of
\* them as parameters passed with the query (LIMIT and OFFSET included).
C7_Original ==
  ListAnswered(list) =>
    /\ (list.out.countIssued => Numbered(list.out.countText, list.out.countParams))
    /\ Numbered(list.out.pageText, list.out.pageParams)

\* C8: two list requests to the same endpoint that activate the same filters
\* with different values produce the same query texts.
C8_Original ==
  (ListAnswered(list) /\ ListAnswered(list2)
   /\ list.endpoint = list2.endpoint /\ list.out.active = list2.out.active) =>
    /\ list.out.countText = list2.out.countText
    /\ list.out.pageText = list2.out.pageText

Clamp(n, lo, hi) == IF n < lo THEN lo ELSE IF n > hi THEN hi ELSE n

\* the number a client asks for, for a parameter that is absent or an integer
Requested(p, dflt) == IF p.present THEN IntOf(ToNumber(p.v)) ELSE dflt

IntegerOrAbsent(p) == p.present => (p.v # << >> /\ ~ToNumber(p.v).nan)

\* every filter of the request passes its schema
FiltersValid(l) ==
  \A ep \in ListEndpoints : ep.name = l.endpoint =>
    \A i \in 1..Len(ep.filters) : ParseField(ep.filters[i], l.query[ep.filters[i].name]).ok

\* C9: every list request is answered with the requested page size clamped
\* into [1, 100] and the requested page raised to at least 1 (never refused
\* for being out of range), and the OFFSET bound is (page - 1) * limit.
C9_Original ==
  (list # NoList /\ FiltersValid(list)
   /\ IntegerOrAbsent(list.query["page"]) /\ IntegerOrAbsent(list.query["limit"])) =>
    LET dflt  == IF list.endpoint = "featured" THEN FeaturedDefault ELSE DefaultLimit
        limit == Clamp(Requested(list.query["limit"], dflt), 1, MaxLimit)
        page  == Clamp(Requested(list.query["page"], DefaultPage), 1, Limb)
    IN  /\ list.out.status = 200
        /\ list.out.limit = limit
        /\ list.out.page = page
        /\ list.out.offset = (page - 1) * limit
        /\ IF list.endpoint = "featured"
           THEN list.out.pageParams = << Num(limit) >>
           ELSE SubSeq(list.out.pageParams, Len(list.out.pageParams) - 1,
                       Len(list.out.pageParams))
                  = << Num(limit), Num((page - 1) * limit) >>

\* the validated filters and pagination of a served list request
Validated(l) ==
  CHOOSE f \in { ParseQuery(ep, l.query) : ep \in { e \in ListEndpoints : e.name = l.endpoint } } : TRUE

PresentFilters(l) ==
  LET f == Validated(l).f IN { n \in DOMAIN f : f[n].present }

\* C22 as claimed: in an answered list request a filter adds a clause and a
\* bound value exactly when it is present in the validated query, whatever
\* its value is (empty string, 0, false): the filters with a clause are the
\* present ones, one parameter each.
C22_Original ==
  (ListAnswered(list) /\ list.endpoint # "featured") =>
    /\ list.out.active = PresentFilters(list)
    /\ Len(list.out.countParams) = Cardinality(PresentFilters(list))

(***************************************************************************)
(* Submissions: POST /api/quotes, /api/suggestions and /api/contact-support *)
(*                                                                         *)
(* Each handler upserts the user and inserts the submission inside one     *)
(* transaction on a pooled connection.  Every await is a step, so two      *)
(* handlers interleave.  The database is PostgreSQL at READ COMMITTED: the *)
(* rows a transaction has written are invisible to the others and lock out *)
(* their writes to the same unique key until it commits or rolls back.     *)
(***************************************************************************)
MaxSubmissions == 2

SubmissionTypes == { "quote", "suggestion", "contact" }

\* the prefix of `QR-${Date.now()}`, `PS-${Date.now()}`, `CS-${Date.now()}`
Prefix(type) ==
  IF type = "quote" THEN << "Q", "R", "-" >>
  ELSE IF type = "suggestion" THEN << "P", "S", "-" >>
  ELSE << "C", "S", "-" >>

ReferenceId(type, t) == Prefix(type) \o NumToString(t)

\* the status the INSERT statement of each type writes
InitialStatus(type) == IF type = "contact" THEN "open" ELSE "submitted"

\* request bodies: firstName (name, for a contact request) must not be empty
Payloads ==
  [type : SubmissionTypes, email : Emails, firstName : {"", "Ann"}]

\* a schema that lets every body through
SchemaAcceptsAll(payload) == TRUE

\* quoteRequestSchema / partSuggestionSchema / contactSupportSchema .parse
SchemaAccepts(payload) == payload.firstName # ""

NoWrite == [kind |-> "none"]

\* a transaction's uncommitted writes
NoTxn == [open |-> FALSE, user |-> NoWrite, child |-> NoWrite]

\* a commit under ON CONFLICT (email) DO NOTHING: an existing user row stays
CommitTxnKeepingRow(db, t) ==
  [users |-> IF t.user = NoWrite \/ db.users[t.user.email] # NoRow THEN db.users
             ELSE [db.users EXCEPT ![t.user.email] =
                     [firstName |-> t.user.firstName, by |-> t.user.by]],
   subs  |-> IF t.child = NoWrite THEN db.subs ELSE db.subs \cup {t.child.row}]

\* COMMIT: the writes of the transaction become the committed rows
CommitTxn(db, t) ==
  [users |-> IF t.user = NoWrite THEN db.users
             ELSE [db.users EXCEPT ![t.user.email] =
                     [firstName |-> t.user.firstName, by |-> t.user.by]],
   subs  |-> IF t.child = NoWrite THEN db.subs ELSE db.subs \cup {t.child.row}]

\* what a rollback that lets the user upsert through would leave
RollbackKeepingUser(db, t) ==
  CommitTxn(db, [t EXCEPT !.child = NoWrite])

\* ROLLBACK, or the loss of the connection: the writes are discarded
RollbackTxn(db, t) == db

\* another transaction holds an uncommitted write to the users row of email
UserLocked(p, email) ==
  \E o \in Handlers \ {p} :
    /\ inFlight[o].pc # "idle"
    /\ inFlight[o].txn.user # NoWrite
    /\ inFlight[o].txn.user.email = email

\* another transaction holds an uncommitted row with this reference id
ChildLocked(p, type, referenceId) ==
  \E o \in Handlers \ {p} :
    /\ inFlight[o].pc # "idle"
    /\ inFlight[o].txn.child # NoWrite
    /\ inFlight[o].txn.child.row.type = type
    /\ inFlight[o].txn.child.row.reference_id = referenceId

\* a table without the constraint
DuplicateReferenceAllowed(type, referenceId) == FALSE

\* UNIQUE (reference_id) of the table of this type
DuplicateReference(type, referenceId) ==
  \E row \in subs : row.type = type /\ row.reference_id = referenceId

TxnInit ==
  /\ now = Now0
  /\ ticks = 0
  /\ req = NoReq
  /\ res = NoRes
  /\ AppAtStart
  /\ EnvAtStart

Frame == UNCHANGED << req, res, appVars, limVars, listVars, envVars >>

\* no response data: the body of a failure carries none
NoData == [id |-> << >>, status |-> "none"]

\* res.status(status).json({ success, ... }): the handler has answered; the
\* status is 0 while the request is in progress
Answer(hp, status, success) ==
  [hp EXCEPT !.pc = "done", !.status = status, !.success = success]

\* a handler that would keep its connection
ReleaseSkipped(hp) == hp

\* finally { client.release() }: the connection goes back to the pool
Release(hp) == [hp EXCEPT !.held = FALSE, !.releases = @ + 1]

\* router.post('/'): schema.parse(req.body), then the reference id is made;
\* a request goes to the first handler that is free
SubmitFrom(p, payloads) ==
  /\ inFlight[p].pc = "idle"
  /\ \A o \in Handlers : o < p => inFlight[o].pc # "idle"
  /\ started < MaxSubmissions
  /\ \E payload \in payloads :
       LET hp == [pc |-> "connect", id |-> started + 1, payload |-> payload,
                  referenceId |-> ReferenceId(payload.type, now),
                  held |-> FALSE, releases |-> 0, txn |-> NoTxn, status |-> 0,
                  success |-> FALSE, data |-> NoData, failedAt |-> "none"]
       IN  inFlight' = [inFlight EXCEPT ![p] =
                          IF SchemaAccepts(payload) THEN hp
                          ELSE [Answer(hp, 400, FALSE) EXCEPT !.failedAt = "parse"]]
  /\ started' = started + 1
  /\ UNCHANGED << now, ticks, users, subs >>
  /\ Frame

Submit(p) == SubmitFrom(p, Payloads)

\* await dbPool.getPool().connect()
Connect(p) ==
  /\ inFlight[p].pc = "connect"
  /\ \E ok \in BOOLEAN :
       inFlight' = [inFlight EXCEPT ![p] =
                      IF ok THEN [@ EXCEPT !.pc = "begin", !.held = TRUE]
                      ELSE [Answer(@, 500, FALSE) EXCEPT !.failedAt = "connect"]]
  /\ UNCHANGED << now, ticks, users, subs, started >>
  /\ Frame

\* await client.query('BEGIN')
Begin(p) ==
  /\ inFlight[p].pc = "begin"
  /\ \E ok \in BOOLEAN :
       inFlight' = [inFlight EXCEPT ![p] =
                      IF ok THEN [@ EXCEPT !.pc = "upsert", !.txn.open = TRUE]
                      ELSE [@ EXCEPT !.pc = "rollback", !.failedAt = "begin"]]
  /\ UNCHANGED << now, ticks, users, subs, started >>
  /\ Frame

\* INSERT INTO users ... ON CONFLICT (email) DO UPDATE ... RETURNING id
UpsertUser(p) ==
  /\ inFlight[p].pc = "upsert"
  /\ ~UserLocked(p, inFlight[p].payload.email)
  /\ \E ok \in BOOLEAN :
       LET hp == inFlight[p]
           write == [kind |-> "user", email |-> hp.payload.email,
                     firstName |-> hp.payload.firstName, by |-> hp.id]
       IN  inFlight' = [inFlight EXCEPT ![p] =
                          IF ok THEN [hp EXCEPT !.pc = "insert", !.txn.user = write]
                          ELSE [hp EXCEPT !.pc = "rollback", !.failedAt = "upsert"]]
  /\ UNCHANGED << now, ticks, users, subs, started >>
  /\ Frame

\* INSERT INTO quote_requests / part_suggestions / contact_support_requests:
\* fails on a committed row with the same reference id
InsertChild(p) ==
  /\ inFlight[p].pc = "insert"
  /\ ~ChildLocked(p, inFlight[p].payload.type, inFlight[p].referenceId)
  /\ \E ok \in BOOLEAN :
       LET hp  == inFlight[p]
           row == [type |-> hp.payload.type, reference_id |-> hp.referenceId,
                   user |-> hp.payload.email, status |-> InitialStatus(hp.payload.type),
                   by |-> hp.id]
       IN  inFlight' = [inFlight EXCEPT ![p] =
                          IF DuplicateReference(hp.payload.type, hp.referenceId)
                          THEN [hp EXCEPT !.pc = "rollback", !.failedAt = "duplicate"]
                          ELSE IF ok
                          THEN [hp EXCEPT !.pc = "commit",
                                          !.txn.child = [kind |-> "child", row |-> row]]
                          ELSE [hp EXCEPT !.pc = "rollback", !.failedAt = "insert"]]
  /\ UNCHANGED << now, ticks, users, subs, started >>
  /\ Frame

\* await client.query('COMMIT'), then res.json with the reference id and the
\* status the INSERT returned, and client.release()
Commit(p) ==
  /\ inFlight[p].pc = "commit"
  /\ \E ok \in BOOLEAN :
       LET hp == inFlight[p]
           db == CommitTxn([users |-> users, subs |-> subs], hp.txn)
       IN  IF ok
           THEN /\ users' = db.users
                /\ subs' = db.subs
                /\ inFlight' = [inFlight EXCEPT ![p] =
                                  [Release(Answer(hp, 200, TRUE)) EXCEPT
                                     !.txn = NoTxn,
                                     !.data = [id |-> hp.txn.child.row.reference_id,
                                               status |-> hp.txn.child.row.status]]]
           ELSE /\ inFlight' = [inFlight EXCEPT ![p] =
                                  [hp EXCEPT !.pc = "rollback", !.failedAt = "commit"]]
                /\ UNCHANGED << users, subs >>
  /\ UNCHANGED << now, ticks, started >>
  /\ Frame

\* catch: await client.query('ROLLBACK'); finally: client.release(); the
\* outer catch answers 500.  When ROLLBACK itself fails the connection is
\* gone and the server discards the transaction.
Rollback(p) ==
  /\ inFlight[p].pc = "rollback"
  /\ \E ok \in BOOLEAN :
       LET hp == inFlight[p]
           db == RollbackTxn([users |-> users, subs |-> subs], hp.txn)
       IN  /\ users' = db.users
           /\ subs' = db.subs
           /\ inFlight' = [inFlight EXCEPT ![p] =
                             [Release(Answer(hp, 500, FALSE)) EXCEPT !.txn = NoTxn]]
  /\ UNCHANGED << now, ticks, started >>
  /\ Frame

\* the response has been delivered
Respond(p) ==
  /\ inFlight[p].pc = "done"
  /\ inFlight' = [inFlight EXCEPT ![p] = Idle]
  /\ UNCHANGED << now, ticks, users, subs, started >>
  /\ Frame

\* a millisecond passes
TxnTick ==
  /\ ticks < MaxTicks
  /\ now' = now + 1
  /\ ticks' = ticks + 1
  /\ UNCHANGED txnVars
  /\ Frame

TxnNext ==
  \/ TxnTick
  \/ \E p \in Handlers :
       \/ Submit(p) \/ Connect(p) \/ Begin(p) \/ UpsertUser(p)
       \/ InsertChild(p) \/ Commit(p) \/ Rollback(p) \/ Respond(p)

SpecTxn == TxnInit /\ [][TxnNext]_vars

(***************************************************************************)
(* Properties of the submissions                                           *)
(***************************************************************************)
ChildInsertFailed(hp) ==
  hp.pc = "done" /\ hp.failedAt \in {"insert", "duplicate"}

\* the committed rows that request id wrote
CommittedBy(id) ==
  { e \in Emails : users[e] # NoRow /\ users[e].by = id }
    \cup { row.reference_id : row \in { r \in subs : r.by = id } }

\* C10: a request whose child insert failed is answered 500 and has left no
\* committed row, so no user row for an email that was absent before; and at
\* every moment each committed submission has its user and each committed
\* user write came with the submission of the same request.
C10_Atomicity ==
  /\ \A p \in Handlers :
       ChildInsertFailed(inFlight[p]) =>
         (inFlight[p].status = 500 /\ CommittedBy(inFlight[p].id) = { })
  /\ \A row \in subs : users[row.user] # NoRow
  /\ \A e \in Emails :
       users[e] # NoRow =>
         \E row \in subs : row.user = e /\ row.by = users[e].by

\* a request has failed on a duplicate reference id and its email, absent
\* before the request, is still absent
C10_Witness ==
  \E p \in Handlers :
    /\ ChildInsertFailed(inFlight[p])
    /\ inFlight[p].failedAt = "duplicate"
    /\ inFlight[p].status = 500
    /\ users[inFlight[p].payload.email] = NoRow
    /\ subs # { }

(***************************************************************************)
(* Repeated submissions: the same client submits again under another name  *)
(***************************************************************************)
RepeatPayloads ==
  [type : SubmissionTypes, email : {"ann@x"}, firstName : {"Ann", "Bo"}]

Resubmit(p) == SubmitFrom(p, RepeatPayloads)

RepeatNext ==
  \/ TxnTick
  \/ \E p \in Handlers :
       \/ Resubmit(p) \/ Connect(p) \/ Begin(p) \/ UpsertUser(p)
       \/ InsertChild(p) \/ Commit(p) \/ Rollback(p) \/ Respond(p)

SpecRepeat == TxnInit /\ [][RepeatNext]_vars

Succeeded(hp) == hp.pc = "done" /\ hp.status = 200

\* the rows of the submission tables that request id wrote
RowsBy(id) == { row \in subs : row.by = id }

\* two answered submissions of one email: one user row, written by one of
\* the two, and one submission row each, with different reference ids
TwoSubmissionsOneUser(a, b) ==
  LET e == a.payload.email
  IN  /\ users[e] # NoRow
      /\ users[e].by \in {a.id, b.id}
      /\ \A hp \in {a, b} :
           /\ users[e].by = hp.id => users[e].firstName = hp.payload.firstName
           /\ Cardinality(RowsBy(hp.id)) = 1
           /\ \A row \in RowsBy(hp.id) : row.user = e
      /\ \A ra \in RowsBy(a.id), rb \in RowsBy(b.id) :
           ra.type = rb.type => ra.reference_id # rb.reference_id

\* the step in which the submission of handler p commits
Commits(p) ==
  /\ inFlight[p].pc = "commit"
  /\ Succeeded(inFlight'[p])

\* C11: two successful submissions with the same email leave one user row
\* for it and two submission rows with distinct reference ids that reference
\* it; each commit writes its own name into the user row, so the row holds
\* the name of the later submission.
C11_Upsert ==
  /\ [](\A p, q \in Handlers :
          (p # q /\ Succeeded(inFlight[p]) /\ Succeeded(inFlight[q])
           /\ inFlight[p].payload.email = inFlight[q].payload.email) =>
            TwoSubmissionsOneUser(inFlight[p], inFlight[q]))
  /\ [][\A p \in Handlers :
          Commits(p) =>
            /\ users'[inFlight[p].payload.email] =
                 [firstName |-> inFlight[p].payload.firstName, by |-> inFlight[p].id]
            /\ \A e \in Emails \ {inFlight[p].payload.email} : users'[e] = users[e]
            /\ Cardinality(subs') = Cardinality(subs) + 1]_vars

\* both handlers have answered 200 for the same email under different names,
\* and the user row holds the name of the second request
C11_Witness ==
  \E p, q \in Handlers :
    /\ Succeeded(inFlight[p]) /\ Succeeded(inFlight[q])
    /\ inFlight[p].id < inFlight[q].id
    /\ inFlight[p].payload.email = inFlight[q].payload.email
    /\ inFlight[p].payload.firstName # inFlight[q].payload.firstName
    /\ users[inFlight[q].payload.email].firstName = inFlight[q].payload.firstName
    /\ Cardinality(subs) = 2

\* the request met no failure of the database or of the pool itself
NoOutage(hp) == hp.pc = "done" /\ hp.failedAt \in {"none", "duplicate"}

\* C12 as claimed: two valid submissions from the same email that meet no
\* outage both commit, whatever the interleaving and the clock readings, and
\* each gets its own submission row.
C12_Original ==
  \A p, q \in Handlers :
    (p # q /\ NoOutage(inFlight[p]) /\ NoOutage(inFlight[q])
     /\ inFlight[p].payload.email = inFlight[q].payload.email) =>
      /\ Succeeded(inFlight[p]) /\ Succeeded(inFlight[q])
      /\ RowsBy(inFlight[p].id) # { } /\ RowsBy(inFlight[q].id) # { }
      /\ RowsBy(inFlight[p].id) # RowsBy(inFlight[q].id)

\* the handler is between connect() and the end of its finally block
HoldsConnection(hp) == hp.pc \in {"begin", "upsert", "insert", "commit", "rollback"}

\* the handler has finished a request for which it had acquired a connection
FinishedWithConnection(hp) == hp.pc = "done" /\ hp.failedAt \notin {"parse", "connect"}

\* C13: a handler holds its connection exactly from connect() to the end of
\* its finally block and releases it exactly once on every exit path (after
\* COMMIT, after a failed BEGIN, upsert, insert or COMMIT, and whether or not
\* ROLLBACK succeeds); finished and idle handlers hold no connection.
C13_Release ==
  /\ [](\A p \in Handlers :
          LET hp == inFlight[p]
          IN  /\ HoldsConnection(hp) => (hp.held /\ hp.releases = 0)
              /\ hp.pc = "connect" => (~hp.held /\ hp.releases = 0)
              /\ hp.pc = "done" =>
                   (~hp.held /\ hp.releases = IF FinishedWithConnection(hp) THEN 1 ELSE 0))
  /\ [][\A p \in Handlers :
          (inFlight[p].pc = "rollback" /\ inFlight'[p].pc # "rollback") =>
            (inFlight'[p].pc = "done" /\ ~inFlight'[p].held
             /\ inFlight'[p].releases = inFlight[p].releases + 1)]_vars

\* every handler has finished, one of them after a failed COMMIT and the
\* rollback that followed, and none holds a connection
C13_Witness ==
  /\ \A p \in Handlers : inFlight[p].pc = "done" /\ ~inFlight[p].held
  /\ \E p \in Handlers : inFlight[p].failedAt = "commit" /\ inFlight[p].releases = 1
  /\ \E p \in Handlers : Succeeded(inFlight[p]) /\ inFlight[p].releases = 1

\* the steps a handler may take from one await to the next
StepOrder ==
  { << "idle", "connect" >>, << "idle", "done" >>,
    << "connect", "begin" >>, << "connect", "done" >>,
    << "begin", "upsert" >>, << "begin", "rollback" >>,
    << "upsert", "insert" >>, << "upsert", "rollback" >>,
    << "insert", "commit" >>, << "insert", "rollback" >>,
    << "commit", "done" >>, << "commit", "rollback" >>,
    << "rollback", "done" >>, << "done", "idle" >> }

\* where the handler stands, given what its transaction has done so far
InOrder(hp) ==
  /\ hp.pc = "connect" => (~hp.txn.open /\ hp.txn.user = NoWrite /\ hp.txn.child = NoWrite)
  /\ hp.pc = "begin" => (~hp.txn.open /\ hp.txn.user = NoWrite /\ hp.txn.child = NoWrite)
  /\ hp.pc = "upsert" => (hp.txn.open /\ hp.txn.user = NoWrite /\ hp.txn.child = NoWrite)
  /\ hp.pc = "insert" => (hp.txn.open /\ hp.txn.user # NoWrite /\ hp.txn.child = NoWrite)
  /\ hp.pc = "commit" => (hp.txn.open /\ hp.txn.user # NoWrite /\ hp.txn.child # NoWrite)
  /\ hp.pc = "rollback" => (hp.held /\ hp.status = 0 /\ hp.failedAt # "none")
  /\ hp.pc \notin {"idle", "done"} => hp.status = 0

\* C24: a submission steps through BEGIN, user upsert, child insert and
\* COMMIT in this order; 200 is answered in the step in which COMMIT
\* succeeds and only there, and only that step changes the committed rows;
\* after the connection is acquired an error is answered only by the step
\* that has issued ROLLBACK; a payload the schema refuses is answered 400
\* before any connection is taken and no datastore operation happens for it.
C24_Order ==
  /\ [](\A p \in Handlers :
          LET hp == inFlight[p]
          IN  hp.pc # "idle" =>
                /\ InOrder(hp)
                /\ hp.payload.firstName = "" =>
                     (hp.pc = "done" /\ hp.status = 400 /\ hp.releases = 0
                      /\ hp.txn = NoTxn /\ CommittedBy(hp.id) = { }))
  /\ [][\A p \in Handlers :
          LET pc == inFlight[p].pc
              hq == inFlight'[p]
          IN  /\ pc # hq.pc => << pc, hq.pc >> \in StepOrder
              /\ (pc # "done" /\ hq.pc = "done" /\ hq.status = 200) => pc = "commit"
              /\ (pc # "done" /\ hq.pc = "done" /\ hq.status = 500) =>
                   pc \in {"connect", "rollback"}
              /\ (pc # "done" /\ hq.pc = "done" /\ hq.status = 400) => pc = "idle"
              /\ (users' # users \/ subs' # subs) =>
                   \E q \in Handlers :
                     inFlight[q].pc = "commit" /\ inFlight'[q].status = 200]_vars

\* one request was refused by its schema and has touched nothing; the other
\* failed at its child insert, has rolled back, released its connection
\* and answered 500
C24_Witness ==
  \E p, q \in Handlers :
    /\ inFlight[p].pc = "done" /\ inFlight[p].failedAt = "parse"
    /\ inFlight[p].status = 400 /\ ~inFlight[p].held
    /\ inFlight[q].pc = "done" /\ inFlight[q].failedAt = "insert"
    /\ inFlight[q].status = 500 /\ inFlight[q].releases = 1
    /\ subs = { }

\* C25: the committed reference ids of one submission type are pairwise
\* distinct; a submission whose generated id is already committed is
\* answered 500, leaves no row of its own, and the row that holds the id is
\* still the one the earlier request wrote.
C25_Distinct ==
  /\ \A r1, r2 \in subs :
       (r1.type = r2.type /\ r1.reference_id = r2.reference_id) => r1 = r2
  /\ \A p \in Handlers :
       (inFlight[p].pc = "done" /\ inFlight[p].failedAt = "duplicate") =>
         /\ inFlight[p].status = 500
         /\ RowsBy(inFlight[p].id) = { }
         /\ \E row \in subs :
              /\ row.type = inFlight[p].payload.type
              /\ row.reference_id = inFlight[p].referenceId
              /\ row.by # inFlight[p].id
              /\ row.status = InitialStatus(row.type)

\* the second of two submissions of one type made in the same millisecond
\* has failed on the id the first one committed
C25_Witness ==
  \E p, q \in Handlers :
    /\ Succeeded(inFlight[p])
    /\ inFlight[q].pc = "done" /\ inFlight[q].failedAt = "duplicate"
    /\ inFlight[q].referenceId = inFlight[p].referenceId
    /\ inFlight[q].payload.type = inFlight[p].payload.type
    /\ Cardinality(subs) = 1

(***************************************************************************)
(* The submission handlers of src/routes/suggestions.ts, contact-support.ts *)
(* and the second router of quotes.ts: no schema, a transaction with no     *)
(* statement between BEGIN and COMMIT, and answers sent with res.json alone *)
(***************************************************************************)
\* router.post('/'): const data = req.body; the reference id is made
PlaceholderSubmit(p) ==
  /\ inFlight[p].pc = "idle"
  /\ \A o \in Handlers : o < p => inFlight[o].pc # "idle"
  /\ started < MaxSubmissions
  /\ \E payload \in Payloads :
       inFlight' = [inFlight EXCEPT ![p] =
                      [pc |-> "connect", id |-> started + 1, payload |-> payload,
                       referenceId |-> ReferenceId(payload.type, now),
                       held |-> FALSE, releases |-> 0, txn |-> NoTxn, status |-> 0,
                       success |-> FALSE, data |-> NoData, failedAt |-> "none"]]
  /\ started' = started + 1
  /\ UNCHANGED << now, ticks, users, subs >>
  /\ Frame

\* await dbPool.getPool().connect(); the outer catch answers with res.json,
\* which leaves the status at 200
PlaceholderConnect(p) ==
  /\ inFlight[p].pc = "connect"
  /\ \E ok \in BOOLEAN :
       inFlight' = [inFlight EXCEPT ![p] =
                      IF ok THEN [@ EXCEPT !.pc = "begin", !.held = TRUE]
                      ELSE [Answer(@, 200, FALSE) EXCEPT !.failedAt = "connect"]]
  /\ UNCHANGED << now, ticks, users, subs, started >>
  /\ Frame

\* await client.query('BEGIN'); the statements that follow are commented out
PlaceholderBegin(p) ==
  /\ inFlight[p].pc = "begin"
  /\ \E ok \in BOOLEAN :
       inFlight' = [inFlight EXCEPT ![p] =
                      IF ok THEN [@ EXCEPT !.pc = "commit", !.txn.open = TRUE]
                      ELSE [@ EXCEPT !.pc = "rollback", !.failedAt = "begin"]]
  /\ UNCHANGED << now, ticks, users, subs, started >>
  /\ Frame

\* await client.query('COMMIT') of the empty transaction, then res.json with
\* the reference id and the literal 'submitted', and client.release()
PlaceholderCommit(p) ==
  /\ inFlight[p].pc = "commit"
  /\ \E ok \in BOOLEAN :
       LET hp == inFlight[p]
       IN  inFlight' = [inFlight EXCEPT ![p] =
                          IF ok
                          THEN [Release(Answer(hp, 200, TRUE)) EXCEPT
                                  !.txn = NoTxn,
                                  !.data = [id |-> hp.referenceId,
                                            status |-> "submitted"]]
                          ELSE [hp EXCEPT !.pc = "rollback", !.failedAt = "commit"]]
  /\ UNCHANGED << now, ticks, users, subs, started >>
  /\ Frame

\* catch: ROLLBACK and rethrow; finally: client.release(); the outer catch
\* answers with res.json, whether or not ROLLBACK succeeded
PlaceholderRollback(p) ==
  /\ inFlight[p].pc = "rollback"
  /\ \E ok \in BOOLEAN :
       inFlight' = [inFlight EXCEPT ![p] =
                      [Release(Answer(@, 200, FALSE)) EXCEPT !.txn = NoTxn]]
  /\ UNCHANGED << now, ticks, users, subs, started >>
  /\ Frame

PlaceholderNext ==
  \/ TxnTick
  \/ \E p \in Handlers :
       \/ PlaceholderSubmit(p) \/ PlaceholderConnect(p) \/ PlaceholderBegin(p)
       \/ PlaceholderCommit(p) \/ PlaceholderRollback(p) \/ Respond(p)

SpecPlaceholder == TxnInit /\ [][PlaceholderNext]_vars

\* the body of the answer reports success
AnsweredSuccess(hp) == hp.pc = "done" /\ hp.status = 200 /\ hp.success

\* C14 as claimed: a successful submission answers 200 with the reference id
\* of a stored row of its type, prefix and digits, and with the initial status
\* of its type: 'submitted' for a quote or a suggestion, 'open' for a contact
\* request.
C14_Original ==
  \A p \in Handlers :
    AnsweredSuccess(inFlight[p]) =>
      LET hp == inFlight[p]
      IN  /\ hp.data.id \in { ReferenceId(hp.payload.type, t) : t \in Now0..(Now0 + MaxTicks) }
          /\ \E row \in subs :
               /\ row.type = hp.payload.type
               /\ row.reference_id = hp.data.id
               /\ row.status = hp.data.status
          /\ hp.data.status = InitialStatus(hp.payload.type)

\* the body of the answer reports failure
AnsweredFailure(hp) == hp.pc = "done" /\ ~hp.success

\* C17 as claimed: an answer whose envelope reports failure carries one of
\* the statuses 400, 401, 404, 429, 500, 503, never 200.
C17_Original ==
  \A p \in Handlers :
    AnsweredFailure(inFlight[p]) =>
      inFlight[p].status \in {400, 401, 404, 429, 500, 503}

(***************************************************************************)
(* Health endpoints, the top-level error handler and the handlers' 500s     *)
(***************************************************************************)
NodeEnvs == { "production", "development", "" }

\* what an Error carries: a message, a stack, and .status / .statusCode,
\* 0 when the property is not set
Messages == { "connect ECONNREFUSED", "relation does not exist" }

Stacks == { "at Pool.query", "at Client.connect" }

Errors == [message : Messages, stack : Stacks, status : {0, 400}, statusCode : {0, 503}]

\* a response body with none of its members set
EmptyBody ==
  [success |-> "", status |-> "", error |-> "", stack |-> "", message |-> "",
   details |-> "", environment |-> "", timestamp |-> 0]

\* an error handler that always answers as in development
errorHandlerVerbose(error, env, headersSent, t) ==
  [kind |-> "error",
   status |-> IF error.status # 0 THEN error.status
              ELSE IF error.statusCode # 0 THEN error.statusCode ELSE 500,
   body |-> [EmptyBody EXCEPT !.success = "false", !.error = error.message,
                              !.stack = error.stack, !.details = "request",
                              !.timestamp = t]]

\* errorHandler(error, req, res, next): nothing is written once the headers
\* are sent; message, stack and the request details go out unless NODE_ENV
\* is 'production'
errorHandler(error, env, headersSent, t) ==
  IF headersSent THEN [kind |-> "next", status |-> 0, body |-> EmptyBody]
  ELSE LET statusCode == IF error.status # 0 THEN error.status
                         ELSE IF error.statusCode # 0 THEN error.statusCode ELSE 500
           isDevelopment == env # "production"
           response == [EmptyBody EXCEPT !.success = "false",
                                         !.error = "Internal server error",
                                         !.timestamp = t]
       IN  [kind |-> "error", status |-> statusCode,
            body |-> IF isDevelopment
                     THEN [response EXCEPT !.error = error.message,
                                           !.stack = error.stack,
                                           !.details = "request"]
                     ELSE response]

\* the routers' catch blocks: res.status(500).json({ success: false, message })
FailureMessage ==
  [quotes |-> "Failed to create quote request",
   suggestions |-> "Failed to submit part suggestion",
   contact |-> "Failed to create contact support request",
   parts |-> "Failed to fetch parts",
   admin |-> "Failed to process login"]

routeCatch(route, error) ==
  [kind |-> "route", status |-> 500,
   body |-> [EmptyBody EXCEPT !.success = "false", !.message = FailureMessage[route]]]

\* DatabasePool.healthCheck: SELECT 1; a failure of the query is caught and
\* reported as status "unhealthy", so the promise never rejects
healthCheck(reachable, error) ==
  IF reachable THEN [rejected |-> FALSE, status |-> "healthy", error |-> error]
  ELSE [rejected |-> FALSE, status |-> "unhealthy", error |-> error]

HealthInit ==
  /\ now = Now0
  /\ ticks = 0
  /\ req = NoReq
  /\ res = NoRes
  /\ AppAtStart
  /\ nodeEnv \in NodeEnvs
  /\ dbReachable = TRUE

HealthFrame == UNCHANGED << now, ticks, appVars, limVars, listVars, txnVars, nodeEnv >>

\* the datastore goes away or comes back
DatastoreChanges ==
  /\ dbReachable' = ~dbReachable
  /\ UNCHANGED << req, res >>
  /\ HealthFrame

\* GET /health
GetHealth ==
  /\ \E e \in Errors :
       LET dbHealth == healthCheck(dbReachable, e)
       IN  /\ req' = [kind |-> "health", path |-> "/", probe |-> dbReachable, at |-> now]
           /\ res' =
                IF dbHealth.rejected
                THEN [kind |-> "health", status |-> 503,
                      body |-> [EmptyBody EXCEPT !.status = "unhealthy",
                                                 !.error = dbHealth.error.message,
                                                 !.environment = IF nodeEnv = "" THEN "development" ELSE nodeEnv,
                                                 !.timestamp = now]]
                ELSE [kind |-> "health",
                      status |-> IF dbHealth.status = "healthy" THEN 200 ELSE 503,
                      body |-> [EmptyBody EXCEPT !.status = IF dbHealth.status = "healthy"
                                                            THEN "healthy" ELSE "unhealthy",
                                                 !.environment = IF nodeEnv = "" THEN "development" ELSE nodeEnv,
                                                 !.timestamp = now]]
  /\ UNCHANGED dbReachable
  /\ HealthFrame

\* GET /health/detailed: the database, the heap and the required variables
GetHealthDetailed ==
  /\ \E e \in Errors, memory \in {"healthy", "warning"}, environment \in {"healthy", "unhealthy"} :
       LET database == healthCheck(dbReachable, e)
           allHealthy == database.status = "healthy" /\ memory = "healthy"
                         /\ environment = "healthy"
       IN  /\ req' = [kind |-> "health", path |-> "/detailed", probe |-> dbReachable, at |-> now]
           /\ res' =
                IF database.rejected
                THEN [kind |-> "health", status |-> 503,
                      body |-> [EmptyBody EXCEPT !.status = "unhealthy",
                                                 !.error = database.error.message,
                                                 !.timestamp = now]]
                ELSE [kind |-> "health", status |-> IF allHealthy THEN 200 ELSE 503,
                      body |-> [EmptyBody EXCEPT !.status = IF allHealthy THEN "healthy"
                                                            ELSE "unhealthy",
                                                 !.timestamp = now]]
  /\ UNCHANGED dbReachable
  /\ HealthFrame

\* GET /health/ready: 503 only when healthCheck rejects
GetHealthReady ==
  /\ \E e \in Errors :
       LET ping == healthCheck(dbReachable, e)
       IN  /\ req' = [kind |-> "health", path |-> "/ready", probe |-> dbReachable, at |-> now]
           /\ res' = IF ping.rejected
                     THEN [kind |-> "health", status |-> 503,
                           body |-> [EmptyBody EXCEPT !.status = "not ready"]]
                     ELSE [kind |-> "health", status |-> 200,
                           body |-> [EmptyBody EXCEPT !.status = "ready"]]
  /\ UNCHANGED dbReachable
  /\ HealthFrame

\* GET /health/live
GetHealthLive ==
  /\ req' = [kind |-> "health", path |-> "/live", probe |-> dbReachable, at |-> now]
  /\ res' = [kind |-> "health", status |-> 200,
             body |-> [EmptyBody EXCEPT !.status = "alive", !.timestamp = now]]
  /\ UNCHANGED dbReachable
  /\ HealthFrame

\* an error reaches app.use(errorHandler)
Unhandled ==
  /\ \E error \in Errors, headersSent \in BOOLEAN :
       /\ req' = [kind |-> "error", error |-> error, headersSent |-> headersSent, at |-> now]
       /\ res' = errorHandler(error, nodeEnv, headersSent, now)
  /\ UNCHANGED dbReachable
  /\ HealthFrame

\* a query fails inside a router's try block
RouteFails ==
  /\ \E route \in DOMAIN FailureMessage, error \in Errors :
       /\ req' = [kind |-> "route", route |-> route, error |-> error, at |-> now]
       /\ res' = routeCatch(route, error)
  /\ UNCHANGED dbReachable
  /\ HealthFrame

HealthTick ==
  /\ ticks < MaxTicks
  /\ now' = now + 1
  /\ ticks' = ticks + 1
  /\ UNCHANGED << req, res, appVars, limVars, listVars, txnVars, envVars >>

HealthNext ==
  \/ DatastoreChanges \/ GetHealth \/ GetHealthDetailed \/ GetHealthReady
  \/ GetHealthLive \/ Unhandled \/ RouteFails \/ HealthTick

SpecHealth == HealthInit /\ [][HealthNext]_vars

\* the body shows the message or the stack of an error
ShowsInternals(body) ==
  \/ body.error \in Messages \/ body.message \in Messages
  \/ body.stack \in Stacks \/ body.details # ""

\* C15: in production no response body shows an error's message or stack:
\* the error handler's answer is the same for all errors that differ only in
\* message and stack, and a router's 500 carries its fixed message whatever
\* the error was.
C15_NoLeak ==
  (nodeEnv = "production" /\ res # NoRes) =>
    /\ ~ShowsInternals(res.body)
    /\ req.kind = "error" =>
         \A m \in Messages, st \in Stacks :
           errorHandler([req.error EXCEPT !.message = m, !.stack = st],
                        nodeEnv, req.headersSent, req.at) = res
    /\ req.kind = "route" =>
         /\ res.status = 500
         /\ res.body.message = FailureMessage[req.route]
         /\ \A e \in Errors : routeCatch(req.route, e) = res

\* in production the error handler has answered an error with its own
\* status and the fixed text
C15_Witness ==
  /\ nodeEnv = "production"
  /\ req.kind = "error" /\ ~req.headersSent
  /\ req.error.message = "connect ECONNREFUSED" /\ req.error.statusCode = 503
  /\ res.status = 503
  /\ res.body.error = "Internal server error" /\ res.body.stack = ""

\* C16 as claimed: GET /health, /health/detailed and /health/ready answer 503
\* whenever the datastore probe fails and 200 only when it succeeds; GET
\* /health/live answers 200 whatever the datastore does.
C16_Original ==
  req.kind = "health" =>
    IF req.path = "/live" THEN res.status = 200
    ELSE /\ ~req.probe => res.status = 503
         /\ res.status = 200 => req.probe

(***************************************************************************)
(* A list request against a changing datastore: the handler sends its      *)
(* COUNT query and its page query one after the other through              *)
(* dbPool.query, each on its own and outside any transaction, while        *)
(* submissions of other clients commit.                                    *)
(***************************************************************************)
\* the submission type whose table an endpoint lists; parts are no submissions
RowType(name) ==
  IF name = "quotes" THEN "quote"
  ELSE IF name = "suggestions" THEN "suggestion"
  ELSE IF name = "contact-support" THEN "contact"
  ELSE "part"

\* list requests with the first filter of the endpoint set or not: the
\* status a new row of the table has, or a search term for the parts
PageQueries(ep) ==
  { [n \in FilterNames(ep) \cup {"page", "limit"} |->
       IF n = ep.filters[1].name THEN first
       ELSE IF n = "page" THEN pg
       ELSE IF n = "limit" THEN lm
       ELSE Absent] :
      first \in { Absent,
                  IF ep.filters[1].name = "status"
                  THEN Given(<< InitialStatus(RowType(ep.name)) >>)
                  ELSE Given(<< "a" >>) },
      pg \in { Absent, Given(<< "2" >>) },
      lm \in { Absent, Given(<< "1" >>) } }

\* the committed rows the WHERE clause of the request selects
Matching(name, filters, rows) ==
  { row \in rows :
      /\ row.type = RowType(name)
      /\ ("status" \in DOMAIN filters.f /\ filters.f["status"].present) =>
           row.status = filters.f["status"].val.s[1] }

\* the number of rows LIMIT limit OFFSET offset returns out of n
PageSize(n, limit, offset) ==
  IF n <= offset THEN 0 ELSE Min(limit, n - offset)

PageInit ==
  /\ now = Now0
  /\ ticks = 0
  /\ req = NoReq
  /\ res = NoRes
  /\ AppAtStart
  /\ EnvAtStart

PageFrame == UNCHANGED << req, res, appVars, limVars, list2, inFlight, envVars >>

\* router.get('/'): schema.parse(req.query) and the building of both queries
ListStart ==
  /\ list = NoList
  /\ \E ep \in ListEndpoints : \E q \in PageQueries(ep) :
       \E out \in { listHandler(ep, q) } :
         list' = [kind |-> "served", endpoint |-> ep.name, query |-> q, out |-> out,
                  pc |-> IF out.status = 200 THEN "count" ELSE "done",
                  status |-> IF out.status = 200 THEN 0 ELSE out.status,
                  total |-> 0, totalPages |-> 0, rows |-> 0, matchedAtPage |-> 0]
  /\ UNCHANGED << now, ticks, users, subs, started >>
  /\ PageFrame

\* const countResult = await dbPool.query(countQuery, params)
ListCount ==
  /\ list # NoList /\ list.pc = "count"
  /\ \E ok \in BOOLEAN :
       list' = IF ok
               THEN [list EXCEPT !.pc = "page",
                                 !.total = Cardinality(Matching(list.endpoint, Validated(list), subs))]
               ELSE [list EXCEPT !.pc = "done", !.status = 500]
  /\ UNCHANGED << now, ticks, users, subs, started >>
  /\ PageFrame

\* params.push(filters.limit, offset); const result = await
\* dbPool.query(query, params); res.json with data and pagination
ListPage ==
  /\ list # NoList /\ list.pc = "page"
  /\ \E ok \in BOOLEAN :
       \E n \in { Cardinality(Matching(list.endpoint, Validated(list), subs)) } :
         list' = IF ok
                 THEN [list EXCEPT !.pc = "done", !.status = 200,
                                   !.rows = PageSize(n, list.out.limit, list.out.offset),
                                   !.matchedAtPage = n,
                                   !.totalPages = Ceil(list.total, list.out.limit)]
                 ELSE [list EXCEPT !.pc = "done", !.status = 500]
  /\ UNCHANGED << now, ticks, users, subs, started >>
  /\ PageFrame

\* the response has been delivered
ListFinish ==
  /\ list # NoList /\ list.pc = "done"
  /\ list' = NoList
  /\ UNCHANGED << now, ticks, users, subs, started >>
  /\ PageFrame

\* the transaction of another client's submission commits
SubmissionCommits ==
  /\ started < MaxSubmissions
  /\ \E type \in SubmissionTypes :
       /\ ~DuplicateReference(type, ReferenceId(type, now))
       /\ \E db \in { CommitTxn([users |-> users, subs |-> subs],
                                [open |-> TRUE,
                                 user |-> [kind |-> "user", email |-> "ann@x",
                                           firstName |-> "Ann", by |-> started + 1],
                                 child |-> [kind |-> "child",
                                            row |-> [type |-> type,
                                                     reference_id |-> ReferenceId(type, now),
                                                     user |-> "ann@x",
                                                     status |-> InitialStatus(type),
                                                     by |-> started + 1]]]) } :
            /\ users' = db.users
            /\ subs' = db.subs
  /\ started' = started + 1
  /\ UNCHANGED << now, ticks, list >>
  /\ PageFrame

PageTick ==
  /\ ticks < MaxTicks
  /\ now' = now + 1
  /\ ticks' = ticks + 1
  /\ UNCHANGED << users, subs, started, list >>
  /\ PageFrame

PageNext ==
  \/ ListStart \/ ListCount \/ ListPage \/ ListFinish
  \/ SubmissionCommits \/ PageTick

SpecPage == PageInit /\ [][PageNext]_vars

\* the list request has been answered with rows and pagination
PageAnswered == list # NoList /\ list.pc = "done" /\ list.status = 200

\* the text that follows the FROM part of the COUNT query
CountWhere(l) ==
  CHOOSE w \in { SubSeq(l.out.countText, Len(ep.countFrom) + 1, Len(l.out.countText)) :
                   ep \in { e \in ListEndpoints : e.name = l.endpoint } } : TRUE

\* the FROM part of the page query, its WHERE clause and the token after it
PageHead(l) ==
  CHOOSE t \in { SubSeq(l.out.pageText, 1, Len(ep.pageFrom) + Len(CountWhere(l)) + 1) :
                   ep \in { e \in ListEndpoints : e.name = l.endpoint } } : TRUE

PageFrom(l) ==
  CHOOSE t \in { ep.pageFrom : ep \in { e \in ListEndpoints : e.name = l.endpoint } } : TRUE

C30_Original ==
  PageAnswered =>
    /\ list.total = list.matchedAtPage
    /\ list.rows <= list.total

(***************************************************************************)
(* Administrative status updates: PATCH /:id of the quotes, suggestions    *)
(* and contact-support routers, and PUT /:id/status of the routers in      *)
(* src/routes/suggestions.ts and contact-support.ts                        *)
(***************************************************************************)
\* updateQuoteStatusSchema, updateSuggestionStatusSchema and
\* updateContactStatusSchema; the CHECK constraints of the tables list the same
StatusEnum(type) ==
  IF type = "quote"
  THEN {"submitted", "reviewing", "quoted", "accepted", "rejected", "expired"}
  ELSE IF type = "suggestion"
  THEN {"submitted", "reviewing", "approved", "rejected", "implemented"}
  ELSE {"open", "in_progress", "resolved", "closed"}

\* the statuses an administrator sends: the first of the enumeration, two
\* later ones, and a word that is in none
StatusInputs(type) ==
  { InitialStatus(type), "rejected", "closed", "resolved", "archived" }

\* columns of audit_logs, and the columns the handlers' INSERT names
AuditLogColumns ==
  { "id", "admin_user_id", "action", "entity_type", "entity_id", "changes",
    "ip_address", "user_agent", "created_at" }

AuditInsertColumns == { "table_name", "record_id", "action", "changed_by", "changes" }

\* the outcomes of the INSERT INTO audit_logs: it fails when it names a
\* column the table does not have, and may fail as any write may
AuditInsertOutcomes ==
  IF AuditInsertColumns \subseteq AuditLogColumns THEN BOOLEAN ELSE {FALSE}

\* UPDATE <table> SET status = $2 WHERE reference_id = $1
SetStatus(rows, type, id, status) ==
  { IF row.type = type /\ row.reference_id = id THEN [row EXCEPT !.status = status]
    ELSE row : row \in rows }

\* the status of the record a request names, "none" when there is no such record
StatusOf(rows, type, id) ==
  IF \E row \in rows : row.type = type /\ row.reference_id = id
  THEN (CHOOSE row \in rows : row.type = type /\ row.reference_id = id).status
  ELSE "none"

PatchInit ==
  /\ now = Now0
  /\ ticks = 0
  /\ req = NoReq
  /\ res = NoRes
  /\ AppAtStart
  /\ EnvAtStart

PatchFrame == UNCHANGED << now, ticks, appVars, limVars, listVars, users, inFlight, started, envVars >>

PatchAnswer(status, success) == [kind |-> "res", status |-> status, success |-> success]

\* router.patch('/:id'): schema.parse(req.body), a ZodError is answered 400
PatchStart ==
  /\ req = NoReq
  /\ \E type \in SubmissionTypes :
       \E id \in { row.reference_id : row \in { r \in subs : r.type = type } } \cup { << "x" >> },
          status \in StatusInputs(type) :
         /\ req' = [kind |-> "patch", route |-> "patch", type |-> type, id |-> id,
                    status |-> status, before |-> StatusOf(subs, type, id),
                    pc |-> IF status \in StatusEnum(type) THEN "update" ELSE "done"]
         /\ res' = IF status \in StatusEnum(type) THEN NoRes ELSE PatchAnswer(400, FALSE)
  /\ UNCHANGED subs
  /\ PatchFrame

\* await dbPool.query(updateQuery, params): a statement of its own, committed
\* when it returns; no row is answered 404
PatchUpdate ==
  /\ req # NoReq /\ req.pc = "update"
  /\ \E ok \in BOOLEAN :
       IF ~ok
       THEN /\ req' = [req EXCEPT !.pc = "done"]
            /\ res' = PatchAnswer(500, FALSE)
            /\ UNCHANGED subs
       ELSE IF req.before = "none"
       THEN /\ req' = [req EXCEPT !.pc = "done"]
            /\ res' = PatchAnswer(404, FALSE)
            /\ UNCHANGED subs
       ELSE /\ req' = [req EXCEPT !.pc = "audit"]
            /\ res' = NoRes
            /\ subs' = SetStatus(subs, req.type, req.id, req.status)
  /\ PatchFrame

\* await dbPool.query(`INSERT INTO audit_logs ...`), then res.json; a
\* failure goes to the catch block, which answers 500
PatchAudit ==
  /\ req # NoReq /\ req.pc = "audit"
  /\ \E ok \in AuditInsertOutcomes :
       /\ req' = [req EXCEPT !.pc = "done"]
       /\ res' = IF ok THEN PatchAnswer(200, TRUE) ELSE PatchAnswer(500, FALSE)
  /\ UNCHANGED subs
  /\ PatchFrame

\* router.put('/:id/status') of src/routes/suggestions.ts and
\* contact-support.ts: the status is read from the body and echoed
PlaceholderPut ==
  /\ req = NoReq
  /\ \E type \in {"suggestion", "contact"} :
       \E id \in { row.reference_id : row \in { r \in subs : r.type = type } } \cup { << "x" >> },
          status \in StatusInputs(type) :
         /\ req' = [kind |-> "patch", route |-> "put", type |-> type, id |-> id,
                    status |-> status, before |-> StatusOf(subs, type, id),
                    pc |-> "done"]
         /\ res' = PatchAnswer(200, TRUE)
  /\ UNCHANGED subs
  /\ PatchFrame

\* the response has been delivered
PatchFinish ==
  /\ req # NoReq /\ req.pc = "done"
  /\ req' = NoReq
  /\ res' = NoRes
  /\ UNCHANGED subs
  /\ PatchFrame

PatchNext ==
  \/ PatchStart \/ PatchUpdate \/ PatchAudit \/ PlaceholderPut \/ PatchFinish
  \/ SubmissionCommits \/ PageTick

SpecPatch == PatchInit /\ [][PatchNext]_vars

PatchAnswered == req # NoReq /\ req.pc = "done"

\* C26 as claimed: every record's status is a member of its type's
\* enumeration; an update naming a member is applied to an existing record
\* whatever its status was; an update naming no member is answered 400 and
\* leaves the record as it was.
C26_Original ==
  /\ \A row \in subs : row.status \in StatusEnum(row.type)
  /\ PatchAnswered =>
       IF req.status \in StatusEnum(req.type)
       THEN (req.before # "none" /\ res.status = 200 /\ req.route = "patch") =>
              StatusOf(subs, req.type, req.id) = req.status
       ELSE /\ res.status = 400
            /\ StatusOf(subs, req.type, req.id) = req.before

\* C27 as claimed: a status update answered 500 has left the record's
\* status as it was before the request, also when the UPDATE succeeded and
\* the audit-log insert that follows failed.
C27_Original ==
  (PatchAnswered /\ res.status = 500) =>
    StatusOf(subs, req.type, req.id) = req.before

(***************************************************************************)
(* The user upsert of the three submission handlers, with the row's       *)
(* columns first_name, last_name, company and phone                       *)
(***************************************************************************)
MaxNameLen == 3

\* value || null: an absent or empty text is stored as NULL
OrNull(opt) == IF opt.present /\ opt.v # << >> THEN opt ELSE Absent

\* the index of the first space of a text, 0 when it has none
RECURSIVE FirstSpace(_, _)
FirstSpace(s, i) ==
  IF i > Len(s) THEN 0 ELSE IF s[i] = " " THEN i ELSE FirstSpace(s, i + 1)

\* validatedData.name.trim().split(' '): nameParts[0] || name, and
\* nameParts.slice(1).join(' ') || ''
SplitName(name) ==
  LET t == TrimEnd(TrimStart(name))
      i == FirstSpace(t, 1)
      head == IF i = 0 THEN t ELSE SubSeq(t, 1, i - 1)
  IN  [first |-> IF head = << >> THEN name ELSE head,
       last  |-> IF i = 0 THEN << >> ELSE SubSeq(t, i + 1, Len(t))]

UserRow(first, last, company, phone) ==
  [kind |-> "user", first_name |-> first, last_name |-> last,
   company |-> company, phone |-> phone]

\* INSERT INTO users ... ON CONFLICT (email) DO UPDATE SET ...: the row of
\* the email after the statement. The suggestions handler's statement names
\* no phone column: a new row gets NULL, an existing row keeps its phone
userQuery(type, body, old) ==
  IF type = "contact"
  THEN LET n == SplitName(body.name)
       IN  UserRow(n.first, n.last, OrNull(body.company), OrNull(body.phone))
  ELSE IF type = "quote"
  THEN UserRow(body.firstName, body.lastName, OrNull(body.company), OrNull(body.phone))
  ELSE UserRow(body.firstName, body.lastName, OrNull(body.company),
               IF old = NoRow THEN Absent ELSE old.phone)

\* bodies the validation accepts, as far as the user's columns go;
\* partSuggestionSchema has no phone
Companies == { Absent, Given(<< >>), Given(<< "A" >>) }

Phones == { Absent, Given(<< "5" >>), Given(<< "7" >>) }

Names == { s \in Strings({ "a", " " }, MaxNameLen) : s # << >> }

UserBodies(type) ==
  IF type = "contact"
  THEN [firstName : { << >> }, lastName : { << >> },
        name : Names, company : Companies, phone : Phones]
  ELSE [firstName : { << "a" >>, << "b" >> }, lastName : { << "c" >> },
        name : { << >> }, company : Companies,
        phone : IF type = "quote" THEN Phones ELSE { Absent }]

\* submissions followed in one behaviour
MaxUpserts == 2

UpsertInit ==
  /\ now = Now0
  /\ ticks = 0
  /\ req = NoReq
  /\ res = NoRes
  /\ AppAtStart
  /\ EnvAtStart

UpsertFrame == UNCHANGED << now, ticks, appVars, limVars, listVars, subs, inFlight, envVars >>

\* router.post('/') from BEGIN to COMMIT or ROLLBACK, seen from outside the
\* transaction: the user's row changes when the transaction commits
Submission ==
  \E type \in SubmissionTypes, email \in Emails, ok \in BOOLEAN :
   \E body \in UserBodies(type) :
    /\ started < MaxUpserts
    /\ started' = started + 1
    /\ req' = [kind |-> "submit", type |-> type, email |-> email, body |-> body,
               before |-> users]
    /\ res' = [kind |-> "res", status |-> IF ok THEN 200 ELSE 500]
    /\ users' = IF ok THEN [users EXCEPT ![email] = userQuery(type, body, users[email])]
                ELSE users
    /\ UpsertFrame

UpsertNext == Submission

SpecUpsert == UpsertInit /\ [][UpsertNext]_vars

\* the name of a body as a row holds it
HoldsName(row, type, body) ==
  IF type = "contact"
  THEN LET joined == IF row.last_name = << >> THEN row.first_name
                     ELSE row.first_name \o << " " >> \o row.last_name
       IN  joined \in { body.name, TrimEnd(TrimStart(body.name)) }
  ELSE row.first_name = body.firstName /\ row.last_name = body.lastName

\* C28 as claimed: after a successful submission the row of the submitted
\* email holds the name, the company and the phone of that payload, whatever
\* the row held before, and no other email's row has changed.
C28_Original ==
  (req # NoReq /\ req.kind = "submit" /\ res.status = 200) =>
    /\ users[req.email] # NoRow
    /\ HoldsName(users[req.email], req.type, req.body)
    /\ users[req.email].company = OrNull(req.body.company)
    /\ users[req.email].phone = OrNull(req.body.phone)
    /\ \A e \in Emails \ { req.email } : users[e] = req.before[e]

\* C28 without the phone: name and company are overwritten by every
\* successful submission and no other email's row changes
C28_NameCompany ==
  (req # NoReq /\ req.kind = "submit" /\ res.status = 200) =>
    /\ users[req.email] # NoRow
    /\ HoldsName(users[req.email], req.type, req.body)
    /\ users[req.email].company = OrNull(req.body.company)
    /\ \A e \in Emails \ { req.email } : users[e] = req.before[e]

(***************************************************************************)
(* A signed request is captured and presented again: to other routes      *)
(* behind authenticateRequest, more than once, and later                  *)
(***************************************************************************)
\* the routes whose requests reach app.use("/api", authenticateRequest)
VerifiedRoutes ==
  { route \in Routes :
      /\ Mounted(<< "api" >>, route.path)
      /\ route \notin { AdminLogin, AdminLogout, AdminVerify, AdminCreate } }

\* a holder of the key and the secret signs a request; its headers and body
\* become known to whoever presents them from now on
Capture ==
  /\ req = NoReq
  /\ \E body \in Bodies :
       \E h \in { generateAuthHeaders(body, ProxyApiKey, ProxySecretKey, now) } :
         req' = [kind |-> "req", apiKey |-> h.apiKey, signature |-> h.signature,
                 timestamp |-> h.timestamp, body |-> body, signedAt |-> now]
  /\ UNCHANGED << now, ticks, res, appVars >>
  /\ UNCHANGED nonApp

\* the captured headers and body are sent to any route behind the verifier
Present ==
  /\ req # NoReq
  /\ handled < MaxRequests
  /\ \E route \in VerifiedRoutes, dbUp \in BOOLEAN :
       HandleRequest(Request(route, req, req.body, "none"), dbUp)

\* time passes: a millisecond, the rest of the window, or the whole window
ReplayTick ==
  /\ ticks < MaxTicks
  /\ \E d \in { 1, WindowMs - 1, WindowMs } : now' = now + d
  /\ ticks' = ticks + 1
  /\ UNCHANGED << req, res, appVars >>
  /\ UNCHANGED nonApp

ReplayNext ==
  \/ Capture
  \/ Present
  \/ ReplayTick

SpecReplay == AppInit /\ [][ReplayNext]_vars

\* C29: the verifier's decision on a presented header triple and body
\* depends on the clock alone: headers signed by the holder of the key are
\* accepted on every route behind the verifier and at every presentation
\* while the clock is within the window of their timestamp, and refused once
\* it is not; earlier presentations, the method and the path change nothing.
C29_Stateless ==
  [][ handled' # handled =>
        /\ served'.route \in VerifiedRoutes
        /\ served'.credentialsOk <=> (Abs(now - req.signedAt) <= WindowMs)
        /\ served'.credentialsOk = authenticateRequest(SignedRequest(req.body, req.timestamp), now).next
    ]_vars

\* C29 witness: the same headers have been accepted twice within a minute,
\* the second time later than they were signed and on the parts list
C29_Witness ==
  /\ req # NoReq
  /\ burst.n >= 2
  /\ now > req.signedAt
  /\ served # NoServed
  /\ served.credentialsOk
  /\ served.route = Route("GET", << "api", "parts" >>)

====
